---- MODULE Spec2Model ----
(***************************************************************************)
(* A model of the TextDBX engine (class TextDBX, src/textdbx/README.md).   *)
(*                                                                         *)
(* The engine is a single JavaScript object whose async methods interleave *)
(* at their awaits.  One step of the model is the code a caller runs from  *)
(* one await to the next.  Arrays and records are JavaScript objects: the  *)
(* model keeps them in a heap (arrs, rows) so that a reference handed out  *)
(* by loadFile and a shallow copy made by updateCache behave as they do in *)
(* the engine.                                                             *)
(***************************************************************************)
EXTENDS Integers, Sequences, FiniteSets, TLC

(***************************************************************************)
(* Bounds of the model.                                                    *)
(***************************************************************************)
MaxProcs == 2          \* concurrent callers
MaxCalls == 2          \* public calls started in one behaviour
MaxTxnCalls == 4     \* public calls started in one behaviour of SpecTxn
MaxStagedCalls == 3  \* public calls started in one behaviour of SpecStaged
MaxOps == 2          \* operations recorded in one transaction
MaxQueryCalls == 7   \* public calls started in one behaviour of SpecQuery
MaxPermCalls == 2    \* public calls started in one behaviour of SpecPerm
MaxBackups == 1      \* backup directories written in one behaviour
MaxSaveCalls == 2    \* public calls started in one behaviour of SpecSave
MaxRoundCalls == 3   \* calls started in one behaviour of SpecRound
MaxStaleCalls == 4   \* calls started in one behaviour of SpecStale
MaxPoolCallers == 3  \* concurrent callers in SpecPool
MaxPoolCalls == 4    \* calls started in one behaviour of SpecPool
MaxPoolConnections == 1  \* config.maxConnections in SpecPool
MaxDropCalls == 3    \* calls started in one behaviour of SpecDrop
MaxCreateCalls == 3  \* calls started in one behaviour of SpecCreate
MaxFilterCalls == 2  \* calls started in one behaviour of SpecFilter
MaxNotCalls == 2     \* calls started in one behaviour of SpecNot
MaxOpsCalls == 2     \* calls started in one behaviour of SpecOps
MaxPageCalls == 1    \* calls started in one behaviour of SpecPage
MaxProjectCalls == 2 \* calls started in one behaviour of SpecProject
MaxGroupCalls == 1   \* calls started in one behaviour of SpecGroup
MaxUpdateCalls == 1  \* calls started in one behaviour of SpecUpdate
MaxCorruptCalls == 2 \* calls started in one behaviour of SpecCorrupt
MaxRecoverCalls == 3 \* calls started in one behaviour of SpecRecover
MaxRestoreCalls == 3 \* calls started in one behaviour of SpecRestore
MaxBackupCalls == 4  \* calls started in one behaviour of SpecBackup
MaxDeleteCalls == 2  \* calls started in one behaviour of SpecDelete
MaxLockCallers == 3  \* concurrent callers in SpecLock
MaxLockCalls == 4    \* calls started in one behaviour of SpecLock
MaxTx == 1             \* transactions begun in one behaviour
MaxFaults == 1         \* injected I/O failures in one behaviour
MaxConnections == 2    \* config.maxConnections
MaxCacheSize == 1      \* config.maxCacheSize

AutoIndexThreshold == 5

Procs == 1 .. MaxProcs
Colls == {"A", "B"}
CollSeq == <<"A", "B">>

\* names that are not collection names: empty, with a space, with a leading
\* dot, and of 65 characters
LongName == "a65"
BadNames == {"", "a b", ".a", LongName}

\* the characters of a name
NameChars(name) ==
    CASE name = "A" -> <<"A">>
      [] name = "B" -> <<"B">>
      [] name = "" -> <<>>
      [] name = "a b" -> <<"a", " ", "b">>
      [] name = ".a" -> <<".", "a">>
      [] name = LongName -> [i \in 1 .. 65 |-> "a"]

\* /^[a-zA-Z0-9_-]+$/ over the characters the names hold
NameCharOk(ch) == ch \in {"A", "B", "a", "b", "_", "-", "0", "9"}

\* validateCollectionName(collection) does not throw
validateCollectionName(name) ==
    /\ NameChars(name) # <<>>
    /\ \A i \in 1 .. Len(NameChars(name)) : NameCharOk(NameChars(name)[i])
    /\ Len(NameChars(name)) <= 64
    /\ NameChars(name)[1] # "."

(***************************************************************************)
(* JavaScript values.  Each kind has its own field name, so values of      *)
(* different kinds are unequal and never compared payload to payload.      *)
(***************************************************************************)
Num(n) == [num |-> n]
Str(s) == [str |-> s]
Bool(b) == [bool |-> b]
Null == [null |-> TRUE]
ArrV(xs) == [arr |-> xs]
Undefined == [undef |-> TRUE]
NaN == [nan |-> TRUE]

IsNum(v) == DOMAIN v = {"num"}
IsStr(v) == DOMAIN v = {"str"}
IsBool(v) == DOMAIN v = {"bool"}
IsArr(v) == DOMAIN v = {"arr"}
IsPrimitive(v) == DOMAIN v \in {{"num"}, {"str"}, {"bool"}, {"null"}, {"undef"}, {"nan"}}

\* a < b, for the numbers the model's records hold
Less(a, b) == IsNum(a) /\ IsNum(b) /\ a.num < b.num

\* a === b: primitives by value, arrays and objects by reference (a literal
\* in a filter is never the same object as a stored value)
StrictEq(a, b) == IsPrimitive(a) /\ IsPrimitive(b) /\ a = b /\ a # NaN

\* row[key]
GetField(row, key) == IF key \in DOMAIN row THEN row[key] ELSE Undefined

\* Object.assign(row, changes)
ObjectAssign(row, changes) ==
    [f \in DOMAIN row \cup DOMAIN changes |->
        IF f \in DOMAIN changes THEN changes[f] ELSE row[f]]

EmptyRec == <<>>

(***************************************************************************)
(* Filters.  An object literal is a sequence of <<key, value>> pairs in    *)
(* key order.  The value of a key is a JavaScript value, an operator       *)
(* object Ops(<<op, arg>>, ...), a list of filters ($and, $or) or a filter *)
(* ($not).                                                                 *)
(***************************************************************************)
Filter(pairs) == [f |-> pairs]
Ops(pairs) == [ops |-> pairs]
FList(fs) == [flist |-> fs]
NoFilter == Undefined

IsFilterObj(x) == DOMAIN x = {"f"}
IsOps(x) == DOMAIN x = {"ops"}

HasKey(filter, key) == \E i \in 1 .. Len(filter.f) : filter.f[i][1] = key
ValueOf(filter, key) ==
    filter.f[CHOOSE i \in 1 .. Len(filter.f) : filter.f[i][1] = key][2]

\* key.startsWith('$'), over the keys the model uses
IsDollar(key) ==
    key \in {"$and", "$or", "$not", "$gt", "$lt", "$gte", "$lte", "$contains",
             "$in", "$exists", "$regex"}

\* s.includes(t) on strings held as sequences of characters
IsSubstring(t, s) ==
    \E i \in 0 .. (Len(s) - Len(t)) :
        \A j \in 1 .. Len(t) : s[i + j] = t[j]

InSeq(x, xs) == \E i \in 1 .. Len(xs) : StrictEq(xs[i], x)

\* one operator of an operator object: "T" holds, "F" fails, "E" throws
OpHolds(op, opValue, rowValue) ==
    CASE op = "$gt" ->
            IF IsNum(rowValue) /\ IsNum(opValue) /\ rowValue.num > opValue.num
            THEN "T" ELSE "F"
      [] op = "$lt" ->
            IF IsNum(rowValue) /\ IsNum(opValue) /\ rowValue.num < opValue.num
            THEN "T" ELSE "F"
      [] op = "$gte" ->
            IF IsNum(rowValue) /\ IsNum(opValue) /\ rowValue.num >= opValue.num
            THEN "T" ELSE "F"
      [] op = "$lte" ->
            IF IsNum(rowValue) /\ IsNum(opValue) /\ rowValue.num <= opValue.num
            THEN "T" ELSE "F"
      [] op = "$contains" ->
            IF IsArr(rowValue)
            THEN IF /\ \A i \in 1 .. Len(rowValue.arr) :
                          IsStr(rowValue.arr[i]) \/ IsNum(rowValue.arr[i])
                    /\ InSeq(opValue, rowValue.arr)
                 THEN "T" ELSE "F"
            ELSE IF IsStr(rowValue) /\ IsStr(opValue)
                 THEN IF IsSubstring(opValue.str, rowValue.str) THEN "T" ELSE "F"
                 ELSE "F"
      [] op = "$in" ->
            IF IsArr(opValue) /\ InSeq(rowValue, opValue.arr) THEN "T" ELSE "F"
      [] op = "$exists" ->
            IF IsBool(opValue) /\ ((rowValue # Undefined) = opValue.bool)
            THEN "T" ELSE "F"
      [] OTHER -> "E"

\* the loop over the operators of one field: the first failing operator
\* returns false, an operator with a null value or an unknown name throws
RECURSIVE OpsHold(_, _, _)
OpsHold(ops, i, rowValue) ==
    IF i > Len(ops) THEN "T"
    ELSE IF ops[i][2] \in {Null, Undefined} THEN "E"
    ELSE LET r == OpHolds(ops[i][1], ops[i][2], rowValue)
         IN IF r = "T" THEN OpsHold(ops, i + 1, rowValue) ELSE r

\* `$not` that returns what the inner filter returned
NegateIdentity(r) == r

\* !this.matchFilter(row, filter.$not); an exception passes through
Negate(r) == IF r = "E" THEN "E" ELSE IF r = "T" THEN "F" ELSE "T"

RECURSIVE matchFilter(_, _)
RECURSIVE MatchEvery(_, _, _)
RECURSIVE MatchSome(_, _, _)
RECURSIVE MatchKeys(_, _, _)

MatchEvery(row, fs, i) ==
    IF i > Len(fs) THEN "T"
    ELSE LET r == matchFilter(row, fs[i])
         IN IF r = "T" THEN MatchEvery(row, fs, i + 1) ELSE r

MatchSome(row, fs, i) ==
    IF i > Len(fs) THEN "F"
    ELSE LET r == matchFilter(row, fs[i])
         IN IF r = "F" THEN MatchSome(row, fs, i + 1) ELSE r

MatchKeys(row, pairs, i) ==
    IF i > Len(pairs) THEN "T"
    ELSE LET key == pairs[i][1]
             filterValue == pairs[i][2]
             rowValue == GetField(row, key)
         IN IF IsDollar(key) THEN MatchKeys(row, pairs, i + 1)
            ELSE IF IsOps(filterValue)
                 THEN LET r == OpsHold(filterValue.ops, 1, rowValue)
                      IN IF r = "T" THEN MatchKeys(row, pairs, i + 1) ELSE r
                 ELSE IF StrictEq(rowValue, filterValue)
                      THEN MatchKeys(row, pairs, i + 1)
                      ELSE "F"

matchFilter(row, filter) ==
    IF ~IsFilterObj(filter) THEN "T"
    ELSE IF HasKey(filter, "$and") THEN MatchEvery(row, ValueOf(filter, "$and").flist, 1)
    ELSE IF HasKey(filter, "$or") THEN MatchSome(row, ValueOf(filter, "$or").flist, 1)
    ELSE IF HasKey(filter, "$not") THEN Negate(matchFilter(row, ValueOf(filter, "$not")))
    ELSE MatchKeys(row, filter.f, 1)

(***************************************************************************)
(* Inputs of the engine specifications.                                    *)
(***************************************************************************)
Rec(k, v) == [k |-> Num(k), v |-> Num(v)]
InsertRecs == {Rec(1, 0), Rec(2, 0)}
\* a record argument that is not an object: a number, a string, null
Primitive(v) == [value |-> v]
\* record && typeof record === 'object'
IsObject(r) == DOMAIN r # {"value"}
KeyFilter(k) == Filter(<< <<"k", Num(k)>> >>)
BadFilter == Filter(<< <<"k", Ops(<< <<"$regex", Num(1)>> >>)>> >>)
AllFilter == Filter(<<>>)
Changes == [v |-> Num(1)]

(***************************************************************************)
(* The state of the engine and of its environment.                         *)
(***************************************************************************)
VARIABLES
    auth,                \* this.auth: role -> permitted actions
    role,                \* this.config.role
    files,               \* <collection>.tdbx: [ex, content, mtime]
    tmpFiles,            \* <collection>.tdbx.tmp
    indexFiles,          \* <collection>.index.<field>.json, as a set of <<c, f>>
    backupDirs,          \* backup directories written by backup()
    cache,               \* this.cache: a Map, [order, ent]
    arrs,                \* heap: array objects, each a sequence of row ids
    rows,                \* heap: record objects
    indexes,             \* this.indexes: <<collection, field>> -> index
    queryPatterns,       \* this.queryPatterns: collection -> field -> count
    transactions,        \* Transaction objects, by id
    activeTransactions,  \* keys of this.activeTransactions
    connectionPool,      \* ConnectionPool: [active, queue]
    fileLocks,           \* keys of this.fileLocks
    procs,               \* the callers: position and locals of each
    now,                 \* the clock (Date.now(), file mtimes)
    calls,               \* the public calls started so far, in issue order
    faults,              \* I/O failures still to be injected
    config,              \* this.config: mode and encryptionKey
    backupFiles          \* <collection>.tdbx.backup and .backup.<timestamp>

vars == << auth, role, files, tmpFiles, indexFiles, backupDirs, cache, arrs, rows,
           indexes, queryPatterns, transactions, activeTransactions,
           connectionPool, fileLocks, procs, now, calls, faults, config,
           backupFiles >>

Cur == [ auth |-> auth, role |-> role, files |-> files, tmpFiles |-> tmpFiles,
         indexFiles |-> indexFiles, backupDirs |-> backupDirs, cache |-> cache,
         arrs |-> arrs, rows |-> rows, indexes |-> indexes,
         queryPatterns |-> queryPatterns, transactions |-> transactions,
         activeTransactions |-> activeTransactions,
         connectionPool |-> connectionPool, fileLocks |-> fileLocks,
         procs |-> procs, now |-> now, calls |-> calls, faults |-> faults,
         config |-> config, backupFiles |-> backupFiles ]

NoFile == [ex |-> FALSE, content |-> <<>>, mtime |-> 0]
\* no <path>.backup, and no <path>.backup.<timestamp>
NoBackups == [last |-> [ex |-> FALSE, content |-> <<>>], stamped |-> <<>>]
NoEntry == [has |-> FALSE, data |-> 0, lastModified |-> 0, lastAccessed |-> 0]
NoResult == [op |-> "", arg |-> "", tx |-> 0, given |-> <<>>, filter |-> Undefined,
             st |-> "", val |-> <<>>]

\* a skip or limit that the Query does not have
NotGiven == -1

\* the `fields` of a Query that has them
Fields(names) == [list |-> names]

\* the sort, skip, limit and fields of a Query, none of them given (the code
\* treats an empty sort like an absent one)
NoOptions ==
    [sort |-> <<>>, skip |-> NotGiven, limit |-> NotGiven, fields |-> Undefined]

IdleProc ==
    [ op |-> "idle", pc |-> "idle", blocked |-> "", coll |-> "", fld |-> "",
      rec |-> EmptyRec, filter |-> NoFilter, changes |-> EmptyRec,
      query |-> NoOptions, pipeline |-> <<>>, tx |-> 0, dir |-> 0, given |-> <<>>,
      i |-> 0, ents |-> <<>>, data |-> 0, raw |-> <<>>, lm |-> 0, conns |-> 0,
      turn |-> 0,
      err |-> "", mk |-> "", ldret |-> "", svret |-> "", mutret |-> "",
      rbret |-> "", gret |-> "", res |-> NoResult ]

(***************************************************************************)
(* The heap.  Object identity is all that matters, so after every step the *)
(* live arrays and rows are renumbered in the order in which the engine's  *)
(* fields reach them, and what nothing refers to is dropped.               *)
(***************************************************************************)
RECURSIVE Dedup(_, _)
Dedup(xs, seen) ==
    IF xs = <<>> THEN <<>>
    ELSE IF Head(xs) \in seen THEN Dedup(Tail(xs), seen)
    ELSE <<Head(xs)>> \o Dedup(Tail(xs), seen \cup {Head(xs)})

RECURSIVE Flatten(_)
Flatten(xss) == IF xss = <<>> THEN <<>> ELSE Head(xss) \o Flatten(Tail(xss))

IndexOf(xs, x) == CHOOSE i \in 1 .. Len(xs) : xs[i] = x

\* a transaction object is still referred to by the table or by a caller
TxLive(s, t) ==
    \/ t \in s.activeTransactions
    \/ \E p \in DOMAIN s.procs : s.procs[p].op # "idle" /\ s.procs[p].tx = t

ArrayRoots(s) ==
    LET cacheRoots == [i \in 1 .. Len(CollSeq) |-> s.cache.ent[CollSeq[i]].data]
        procRoots == [p \in 1 .. Len(s.procs) |-> s.procs[p].data]
        txRoots == Flatten([t \in 1 .. Len(s.transactions) |->
                        [j \in 1 .. Len(s.transactions[t].backups) |->
                            s.transactions[t].backups[j].arr]])
    IN Dedup(SelectSeq(cacheRoots \o procRoots \o txRoots, LAMBDA a : a # 0), {})

\* the state with the arrays `live` and the rows `liveRows` renumbered in
\* that order
Renumber(s, live, liveRows) ==
    [s EXCEPT
       !.arrs = [i \in 1 .. Len(live) |->
                   [j \in 1 .. Len(s.arrs[live[i]]) |->
                       IndexOf(liveRows, s.arrs[live[i]][j])]],
       !.rows = [i \in 1 .. Len(liveRows) |-> s.rows[liveRows[i]]],
       !.cache.ent = [c \in Colls |->
                        [s.cache.ent[c] EXCEPT !.data =
                            IF @ = 0 THEN 0 ELSE IndexOf(live, @)]],
       !.procs = [p \in DOMAIN s.procs |->
                    [s.procs[p] EXCEPT !.data =
                        IF @ = 0 THEN 0 ELSE IndexOf(live, @)]],
       !.transactions =
           [t \in 1 .. Len(s.transactions) |->
               [s.transactions[t] EXCEPT !.backups =
                   [j \in 1 .. Len(@) |->
                       [@[j] EXCEPT !.arr = IndexOf(live, @)]]]]]

LiveRows(s, live) ==
    Dedup(Flatten([i \in 1 .. Len(live) |-> s.arrs[live[i]]]), {})

\* the backups of a transaction object that nothing refers to are unreachable
DropDead(s) ==
    [s EXCEPT !.transactions =
        [t \in 1 .. Len(@) |->
            IF TxLive(s, t) THEN @[t] ELSE [@[t] EXCEPT !.backups = <<>>]]]

RenumberLive(s, live) == Renumber(s, live, LiveRows(s, live))

RenumberFrom(s) == RenumberLive(s, ArrayRoots(s))

CollectGarbage(s) == IF s.arrs = <<>> THEN s ELSE RenumberFrom(DropDead(s))

(***************************************************************************)
(* Time.  Only the order of the timestamps is ever read (cache validity,   *)
(* eviction), so the live timestamps are kept as their ranks, and the      *)
(* clock stands at the latest of them: it is advanced when it is read.     *)
(***************************************************************************)
Stamps(s) ==
    {s.files[c].mtime : c \in {d \in Colls : s.files[d].ex}}
    \cup {s.tmpFiles[c].mtime : c \in {d \in Colls : s.tmpFiles[d].ex}}
    \cup {s.cache.ent[c].lastModified : c \in {d \in Colls : s.cache.ent[d].has}}
    \cup {s.cache.ent[c].lastAccessed : c \in {d \in Colls : s.cache.ent[d].has}}
    \cup {s.procs[p].lm : p \in {q \in DOMAIN s.procs : s.procs[q].pc = "ld_read"}}

Rank(T, t) == Cardinality({u \in T : u < t})

RankWith(s, T) ==
    [s EXCEPT
       !.now = IF T = {} THEN 0 ELSE Cardinality(T) - 1,
       !.files = [c \in Colls |-> IF @[c].ex THEN [@[c] EXCEPT !.mtime = Rank(T, @)]
                                  ELSE NoFile],
       !.tmpFiles = [c \in Colls |-> IF @[c].ex THEN [@[c] EXCEPT !.mtime = Rank(T, @)]
                                     ELSE NoFile],
       !.cache.ent = [c \in Colls |->
                         IF @[c].has
                         THEN [@[c] EXCEPT !.lastModified = Rank(T, @),
                                           !.lastAccessed = Rank(T, @)]
                         ELSE NoEntry],
       !.procs = [p \in DOMAIN s.procs |->
                     IF @[p].pc = "ld_read" THEN [@[p] EXCEPT !.lm = Rank(T, @)]
                     ELSE [@[p] EXCEPT !.lm = 0]]]

RankTimes(s) == RankWith(s, Stamps(s))

\* the clock as read by a step: the same as at the latest reading, or later
Clock == {0, 1}
At(adv) == [Cur EXCEPT !.now = @ + adv]

Normalize(s) == RankTimes(CollectGarbage(s))

\* the step's result becomes the next state: Normalize(s), with each stage
\* of it computed once
Commit(s) ==
    \E s0 \in {s} : \E d0 \in {DropDead(s0)} : \E live \in {ArrayRoots(d0)} :
    \E liveRows \in {LiveRows(d0, live)} :
    \E g0 \in {IF s0.arrs = <<>> THEN s0 ELSE Renumber(d0, live, liveRows)} :
    \E T \in {Stamps(g0)} : \E n \in {RankWith(g0, T)} :
       /\ auth' = n.auth
       /\ role' = n.role
       /\ files' = n.files
       /\ tmpFiles' = n.tmpFiles
       /\ indexFiles' = n.indexFiles
       /\ backupDirs' = n.backupDirs
       /\ cache' = n.cache
       /\ arrs' = n.arrs
       /\ rows' = n.rows
       /\ indexes' = n.indexes
       /\ queryPatterns' = n.queryPatterns
       /\ transactions' = n.transactions
       /\ activeTransactions' = n.activeTransactions
       /\ connectionPool' = n.connectionPool
       /\ fileLocks' = n.fileLocks
       /\ procs' = n.procs
       /\ now' = n.now
       /\ calls' = n.calls
       /\ faults' = n.faults
       /\ config' = n.config
       /\ backupFiles' = n.backupFiles

(***************************************************************************)
(* Callers.                                                                *)
(***************************************************************************)
Runnable(p, label) == procs[p].pc = label /\ procs[p].blocked = ""
Idle(p) == procs[p].op = "idle"

\* a caller starts a public method
Start(s, p, op, args) ==
    [s EXCEPT !.calls = Append(@, [op |-> op,
                                   arg |-> IF "coll" \in DOMAIN args THEN args.coll ELSE "",
                                   tx |-> IF "tx" \in DOMAIN args THEN args.tx ELSE 0]),
              !.procs[p] = [f \in DOMAIN IdleProc |->
                              IF f \in DOMAIN args THEN args[f]
                              ELSE IF f = "op" THEN op
                              ELSE IdleProc[f]]]

\* the method returns (st = "ok") or throws (st = the error's code)
Finish(s, p, st, val) ==
    [s EXCEPT !.procs[p] =
        [IdleProc EXCEPT !.res = [op |-> s.procs[p].op, arg |-> s.procs[p].coll,
                                  tx |-> s.procs[p].tx, given |-> s.procs[p].given,
                                  filter |-> s.procs[p].filter,
                                  st |-> st, val |-> val]]]

Status(err) == IF err = "" THEN "ok" ELSE err

\* C8 mutant: the role is looked up but the action is not
checkPermissionRoleOnly(s, action) == s.role \in DOMAIN s.auth

checkPermission(s, action) ==
    /\ s.role \in DOMAIN s.auth
    /\ action \in s.auth[s.role]

(***************************************************************************)
(* ConnectionPool                                                          *)
(***************************************************************************)
acquireConnection(s, p) ==
    IF s.connectionPool.active < s.config.maxConnections
    THEN [s EXCEPT !.connectionPool.active = @ + 1, !.procs[p].conns = @ + 1]
    ELSE [s EXCEPT !.connectionPool.queue = Append(@, p),
                   !.procs[p].blocked = "conn"]

\* releaseConnection that serves the caller that arrived last
releaseConnectionLast(s, p) ==
    LET s1 == [s EXCEPT !.connectionPool.active = @ - 1, !.procs[p].conns = @ - 1]
    IN IF s1.connectionPool.queue # <<>>
       THEN LET next == s1.connectionPool.queue[Len(s1.connectionPool.queue)]
            IN [s1 EXCEPT !.connectionPool.queue = SubSeq(@, 1, Len(@) - 1),
                          !.connectionPool.active = @ + 1,
                          !.procs[next].blocked = "",
                          !.procs[next].conns = @ + 1]
       ELSE s1

releaseConnection(s, p) ==
    LET s1 == [s EXCEPT !.connectionPool.active = @ - 1, !.procs[p].conns = @ - 1]
    IN IF s1.connectionPool.queue # <<>>
       THEN LET next == Head(s1.connectionPool.queue)
            IN [s1 EXCEPT !.connectionPool.queue = Tail(@),
                          !.connectionPool.active = @ + 1,
                          !.procs[next].blocked = "",
                          !.procs[next].conns = @ + 1]
       ELSE s1

(***************************************************************************)
(* Cache                                                                   *)
(***************************************************************************)
\* the key of the entry that sorts first by lastAccessed (the sort is stable,
\* so among equals the one set first)
OldestKey(s) ==
    LET o == s.cache.order
        la(i) == s.cache.ent[o[i]].lastAccessed
    IN o[CHOOSE i \in 1 .. Len(o) :
            /\ \A j \in 1 .. Len(o) : la(i) <= la(j)
            /\ \A j \in 1 .. (i - 1) : la(j) > la(i)]

CacheDelete(s, c) ==
    [s EXCEPT !.cache.order = SelectSeq(@, LAMBDA k : k # c),
              !.cache.ent[c] = NoEntry]

CacheClear(s) ==
    [s EXCEPT !.cache = [order |-> <<>>, ent |-> [c \in Colls |-> NoEntry]]]

\* updateCache without the eviction of the oldest entry
updateCacheNoEvict(s, c, a, lastModified) ==
    [s EXCEPT
       !.arrs = Append(@, s.arrs[a]),
       !.cache.order = IF \E i \in 1 .. Len(@) : @[i] = c THEN @ ELSE Append(@, c),
       !.cache.ent[c] = [has |-> TRUE, data |-> Len(s.arrs) + 1,
                         lastModified |-> lastModified,
                         lastAccessed |-> s.now]]

updateCache(s, c, a, lastModified) ==
    LET s1 == IF Len(s.cache.order) >= MaxCacheSize
              THEN CacheDelete(s, OldestKey(s))
              ELSE s
    IN [s1 EXCEPT
          !.arrs = Append(@, s.arrs[a]),
          !.cache.order = IF \E i \in 1 .. Len(@) : @[i] = c THEN @ ELSE Append(@, c),
          !.cache.ent[c] = [has |-> TRUE, data |-> Len(s.arrs) + 1,
                            lastModified |-> lastModified,
                            lastAccessed |-> s.now]]

(***************************************************************************)
(* loadFile                                                                *)
(***************************************************************************)
\* JSON.stringify(data)
\* the records of an array, as they are in memory
RowsOf(s, a) == [i \in 1 .. Len(s.arrs[a]) |-> s.rows[s.arrs[a][i]]]

\* JSON.stringify of a value: NaN becomes null, and so does an undefined
\* element of an array
JsonValue(v) ==
    IF v = NaN THEN Null
    ELSE IF IsArr(v)
    THEN ArrV([i \in 1 .. Len(v.arr) |->
                  IF v.arr[i] \in {NaN, Undefined} THEN Null ELSE v.arr[i]])
    ELSE v

\* JSON.stringify of a record: a key whose value is undefined is left out
JsonRecord(r) ==
    [f \in {g \in DOMAIN r : r[g] # Undefined} |-> JsonValue(r[f])]

\* JSON.stringify(data): the text, held as the records it denotes
Stringify(s, a) == [i \in 1 .. Len(s.arrs[a]) |-> JsonRecord(s.rows[s.arrs[a][i]])]

(***************************************************************************)
(* encrypt and decrypt.  A key is known by the password and salt it was    *)
(* derived from; a ciphertext opens only under the key and iv that made it.*)
(***************************************************************************)
PlainConfig ==
    [mode |-> "plain", encryptionKey |-> "key1", maxConnections |-> MaxConnections]
EncryptedConfig ==
    [mode |-> "encrypted", encryptionKey |-> "key1", maxConnections |-> MaxConnections]

\* crypto.randomBytes(16)
RandomBytes == {0, 1}

deriveKey(password, salt) == [password |-> password, salt |-> salt]

\* salt:iv:ciphertext, held as a text of one element
encryptUnsalted(cfg, data, salt, iv) ==
    << [salt |-> salt, iv |-> iv,
        enc |-> [key |-> deriveKey(cfg.encryptionKey, 0), iv |-> iv, data |-> data]] >>

encrypt(cfg, data, salt, iv) ==
    << [salt |-> salt, iv |-> iv,
        enc |-> [key |-> deriveKey(cfg.encryptionKey, salt), iv |-> iv, data |-> data]] >>

\* the text has the three fields of an envelope
IsEnvelope(raw) == Len(raw) = 1 /\ DOMAIN raw[1] = {"salt", "iv", "enc"}

\* decrypt succeeds on an envelope made under the same password
Decrypts(cfg, raw) ==
    /\ IsEnvelope(raw)
    /\ raw[1].enc.key = deriveKey(cfg.encryptionKey, raw[1].salt)
    /\ raw[1].enc.iv = raw[1].iv

decrypt(cfg, raw) == raw[1].enc.data

\* what saveFile writes: the JSON text, encrypted in encrypted mode
Encode(cfg, json, salt, iv) ==
    IF cfg.mode = "encrypted" THEN encrypt(cfg, json, salt, iv) ELSE json

\* JSON.parse: a new array of new records; the caller's data refers to it
ParseInto(s, p, content) ==
    [s EXCEPT !.rows = @ \o content,
              !.arrs = Append(@, [i \in 1 .. Len(content) |-> Len(s.rows) + i]),
              !.procs[p].data = Len(s.arrs) + 1]

CacheValid(s, c) ==
    /\ s.cache.ent[c].has
    /\ s.cache.ent[c].lastModified >= s.files[c].mtime

\* loadFile up to its first await: it returns at once when the file is absent
\* or the cache entry is valid, and otherwise starts reading the file
LoadEnter(s, p, ret) ==
    LET c == s.procs[p].coll
    IN IF ~validateCollectionName(c)
       THEN [s EXCEPT !.procs[p].err = "VALIDATION_ERROR", !.procs[p].pc = ret]
       ELSE IF ~s.files[c].ex
       THEN [ParseInto(s, p, <<>>) EXCEPT !.procs[p].pc = ret]
       ELSE IF CacheValid(s, c)
       THEN [s EXCEPT !.cache.ent[c].lastAccessed = s.now,
                      !.procs[p].data = s.cache.ent[c].data,
                      !.procs[p].pc = ret]
       ELSE [s EXCEPT !.procs[p].lm = s.files[c].mtime,
                      !.procs[p].pc = "ld_read",
                      !.procs[p].ldret = ret]

\* a file of no characters, or of white space only
EmptyText == <<[blank |-> TRUE]>>

\* the JSON text of a value that is not an array
NotArray(v) == <<[value |-> v]>>
IsNotArray(json) == Len(json) = 1 /\ DOMAIN json[1] = {"value"}

\* what a write that stopped part-way leaves at the end of a file
Torn == [torn |-> TRUE]

\* the text is not a complete JSON document
IsTorn(content) == \E i \in 1 .. Len(content) : content[i] = Torn

\* the text loadFile hands to JSON.parse
Decoded(cfg, raw) == IF cfg.mode = "encrypted" THEN decrypt(cfg, raw) ELSE raw

\* the read completes: parse, store in the cache, return the parsed array
LoadRead(s, p) ==
    LET c == s.procs[p].coll
        ret == s.procs[p].ldret
    IN IF ~s.files[c].ex
       THEN [s EXCEPT !.procs[p].err = "FILE_READ_ERROR", !.procs[p].pc = ret,
                      !.procs[p].ldret = ""]
       ELSE IF s.config.mode = "encrypted" /\ ~Decrypts(s.config, s.files[c].content)
       THEN [s EXCEPT !.procs[p].err = "DECRYPTION_ERROR", !.procs[p].pc = ret,
                      !.procs[p].ldret = ""]
       ELSE IF IsTorn(Decoded(s.config, s.files[c].content))
               \/ IsEnvelope(Decoded(s.config, s.files[c].content))
               \/ Decoded(s.config, s.files[c].content) = EmptyText
       THEN [s EXCEPT !.procs[p].err = "DATA_CORRUPTION_ERROR", !.procs[p].pc = ret,
                      !.procs[p].ldret = ""]
       ELSE IF IsNotArray(Decoded(s.config, s.files[c].content))
       THEN [s EXCEPT !.procs[p].err = "DATA_FORMAT_ERROR", !.procs[p].pc = ret,
                      !.procs[p].ldret = ""]
       ELSE LET s1 == ParseInto(s, p, Decoded(s.config, s.files[c].content))
                s2 == updateCache(s1, c, s1.procs[p].data, s.procs[p].lm)
            IN [s2 EXCEPT !.procs[p].pc = ret, !.procs[p].ldret = ""]

(***************************************************************************)
(* withFileLock and saveFile                                               *)
(***************************************************************************)
\* C2 mutant: withFileLock without the wait for an existing lock
SaveEnterNoWait(s, p, ret) ==
    IF ~validateCollectionName(s.procs[p].coll)
    THEN [s EXCEPT !.procs[p].err = "VALIDATION_ERROR", !.procs[p].pc = ret]
    ELSE [s EXCEPT !.fileLocks = @ \cup {s.procs[p].coll},
                   !.procs[p].raw = Stringify(s, s.procs[p].data),
                   !.procs[p].pc = "sv_write",
                   !.procs[p].svret = ret]

\* the callers that await the lock promise of path c; `turn` is a waiter's
\* place among the reactions of that promise, which run in the order in
\* which they were registered
LockWaiters(s, c) ==
    {q \in DOMAIN s.procs : s.procs[q].blocked = "lock" /\ s.procs[q].coll = c}

\* saveFile up to its first await: wait for the lock of the path, or take it,
\* serialise the data and start writing the temporary file
SaveEnter(s, p, ret) ==
    LET c == s.procs[p].coll
    IN IF ~validateCollectionName(c)
       THEN [s EXCEPT !.procs[p].err = "VALIDATION_ERROR", !.procs[p].pc = ret]
       ELSE IF c \in s.fileLocks
       THEN [s EXCEPT !.procs[p].blocked = "lock", !.procs[p].pc = "sv_retry",
                      !.procs[p].turn = Cardinality(LockWaiters(s, c)) + 1,
                      !.procs[p].svret = ret]
       ELSE [s EXCEPT !.fileLocks = @ \cup {c},
                      !.procs[p].raw = Stringify(s, s.procs[p].data),
                      !.procs[p].pc = "sv_write",
                      !.procs[p].svret = ret]

\* C38 mutant: withFileLock without its finally block, so that a failed
\* write leaves the lock of the path in the table
SaveWriteNoFinally(s, p, ok, salt, iv) ==
    LET c == s.procs[p].coll
    IN IF ok
       THEN [s EXCEPT !.tmpFiles[c] = [ex |-> TRUE,
                                       content |-> Encode(s.config, s.procs[p].raw, salt, iv),
                                       mtime |-> s.now],
                      !.procs[p].pc = "sv_rename"]
       ELSE [s EXCEPT !.faults = @ - 1,
                      !.procs[p].raw = <<>>,
                      !.procs[p].err = "FILE_WRITE_ERROR",
                      !.procs[p].pc = s.procs[p].svret,
                      !.procs[p].svret = ""]

\* writeFile(tempPath) completes or fails
SaveWrite(s, p, ok, salt, iv) ==
    LET c == s.procs[p].coll
    IN IF ok
       THEN [s EXCEPT !.tmpFiles[c] = [ex |-> TRUE,
                                       content |-> Encode(s.config, s.procs[p].raw, salt, iv),
                                       mtime |-> s.now],
                      !.procs[p].pc = "sv_rename"]
       ELSE [s EXCEPT !.faults = @ - 1,
                      !.procs[p].raw = <<>>,
                      !.procs[p].err = "FILE_WRITE_ERROR",
                      !.procs[p].pc = "sv_unlock"]

\* rename(tempPath, filePath) takes effect or fails
SaveRename(s, p, ok) ==
    LET c == s.procs[p].coll
    IN IF ok
       THEN [s EXCEPT !.files[c] = s.tmpFiles[c],
                      !.tmpFiles[c] = NoFile,
                      !.procs[p].raw = <<>>,
                      !.procs[p].pc = "sv_cache"]
       ELSE [s EXCEPT !.faults = @ - 1,
                      !.procs[p].raw = <<>>,
                      !.procs[p].err = "FILE_WRITE_ERROR",
                      !.procs[p].pc = "sv_unlock"]

\* after the rename: updateCache(collection, data, Date.now())
SaveCache(s, p) ==
    [updateCache(s, s.procs[p].coll, s.procs[p].data, s.now)
        EXCEPT !.procs[p].pc = "sv_unlock"]

\* the continuations of the callers awaiting the resolved lock promise run
\* one after the other, before any other callback: the waiter whose turn is
\* `first` finds no lock, takes it and starts its save; each of the others
\* finds the new lock and awaits its promise, in the same order
WakeWaiters(s, c, first) ==
    IF LockWaiters(s, c) = {} THEN s
    ELSE LET w == CHOOSE q \in LockWaiters(s, c) : s.procs[q].turn = first
             s1 == [s EXCEPT !.procs[w].blocked = "", !.procs[w].turn = 0]
             s2 == SaveEnter(s1, w, s.procs[w].svret)
             rest == LockWaiters(s, c) \ {w}
         IN [s2 EXCEPT !.procs =
                [q \in DOMAIN s.procs |->
                    IF q \in rest
                    THEN [@[q] EXCEPT !.turn =
                             Cardinality({r \in rest : s.procs[r].turn < s.procs[q].turn}) + 1]
                    ELSE @[q]]]

\* withFileLock whose lock promise wakes the caller that began to wait last
SaveUnlockLast(s, p) ==
    LET c == s.procs[p].coll
    IN WakeWaiters([s EXCEPT !.fileLocks = @ \ {c},
                             !.procs[p].pc = s.procs[p].svret,
                             !.procs[p].svret = ""],
                   c, Cardinality(LockWaiters(s, c)))

\* finally: fileLocks.delete(lockKey); resolveLock()
SaveUnlock(s, p) ==
    LET c == s.procs[p].coll
    IN WakeWaiters([s EXCEPT !.fileLocks = @ \ {c},
                             !.procs[p].pc = s.procs[p].svret,
                             !.procs[p].svret = ""],
                   c, 1)

IoOutcomes == IF faults > 0 THEN {TRUE, FALSE} ELSE {TRUE}

\* the random bytes a save draws: encrypt is called in encrypted mode only
Drawn == IF config.mode = "encrypted" THEN RandomBytes ELSE {0}

(***************************************************************************)
(* insertInternal, updateInternal, deleteInternal                          *)
(***************************************************************************)
\* data.push(record)
Push(s, p) ==
    [s EXCEPT !.rows = Append(@, s.procs[p].rec),
              !.arrs[s.procs[p].data] = Append(@, Len(s.rows) + 1)]

\* for (const row of data) if (matchFilter(row, filter)) Object.assign(row, changes)
RECURSIVE AssignMatching(_, _, _)
AssignMatching(s, p, i) ==
    LET a == s.arrs[s.procs[p].data]
    IN IF i > Len(a) THEN s
       ELSE LET m == matchFilter(s.rows[a[i]], s.procs[p].filter)
            IN IF m = "E" THEN [s EXCEPT !.procs[p].err = "FILTER_ERROR"]
               ELSE IF m = "T"
               THEN AssignMatching(
                        [s EXCEPT !.rows[a[i]] = ObjectAssign(@, s.procs[p].changes)],
                        p, i + 1)
               ELSE AssignMatching(s, p, i + 1)

\* data.filter(...): the ids of the rows whose match result is `want`, or an
\* error when matchFilter throws
RECURSIVE FilterRows(_, _, _, _)
FilterRows(s, p, i, want) ==
    LET a == s.arrs[s.procs[p].data]
    IN IF i > Len(a) THEN [err |-> FALSE, kept |-> <<>>]
       ELSE LET m == matchFilter(s.rows[a[i]], s.procs[p].filter)
                rest == FilterRows(s, p, i + 1, want)
            IN IF m = "E" \/ rest.err THEN [err |-> TRUE, kept |-> <<>>]
               ELSE IF m # want THEN rest
               ELSE [err |-> FALSE, kept |-> <<a[i]>> \o rest.kept]

\* the body of the *Internal method after its loadFile returned
Mutate(s, p) ==
    LET pr == s.procs[p]
    IN IF pr.err # "" THEN [s EXCEPT !.procs[p].pc = pr.mutret]
       ELSE IF pr.mk = "insert" THEN SaveEnter(Push(s, p), p, pr.mutret)
       ELSE IF pr.mk = "update"
       THEN LET s1 == AssignMatching(s, p, 1)
            IN IF s1.procs[p].err # "" THEN [s1 EXCEPT !.procs[p].pc = pr.mutret]
               ELSE SaveEnter(s1, p, pr.mutret)
       ELSE LET r == FilterRows(s, p, 1, "F")
            IN IF r.err
               THEN [s EXCEPT !.procs[p].err = "FILTER_ERROR", !.procs[p].pc = pr.mutret]
               ELSE SaveEnter([s EXCEPT !.arrs = Append(@, r.kept),
                                        !.procs[p].data = Len(s.arrs) + 1],
                              p, pr.mutret)

(***************************************************************************)
(* insert, update, delete                                                  *)
(***************************************************************************)
\* checkPermission; acquireConnection
StartMutation(s, p, kind, args) ==
    LET s1 == Start(s, p, kind,
                    args @@ [mk |-> kind, pc |-> "m_enter", mutret |-> "pub_rel"])
    IN IF ~checkPermission(s, kind) THEN Finish(s1, p, "PERMISSION_DENIED", <<>>)
       ELSE acquireConnection(s1, p)

insert(p, c, r) ==
    /\ Idle(p)
    /\ Commit(StartMutation(Cur, p, "insert", [coll |-> c, rec |-> r]))

update(p, c, f, ch) ==
    /\ Idle(p)
    /\ Commit(StartMutation(Cur, p, "update", [coll |-> c, filter |-> f, changes |-> ch]))

delete(p, c, f) ==
    /\ Idle(p)
    /\ Commit(StartMutation(Cur, p, "delete", [coll |-> c, filter |-> f]))

\* the connection is granted: the *Internal method calls loadFile
MutEnter(p) ==
    /\ Runnable(p, "m_enter")
    /\ \E adv \in Clock : Commit(LoadEnter(At(adv), p, "m_mut"))

LoadReadDone(p) ==
    /\ Runnable(p, "ld_read")
    /\ \E adv \in Clock : Commit(LoadRead(At(adv), p))

MutApply(p) ==
    /\ Runnable(p, "m_mut")
    /\ Commit(Mutate(Cur, p))

WriteDone(p) ==
    /\ Runnable(p, "sv_write")
    /\ \E ok \in IoOutcomes : \E adv \in Clock : \E salt \in Drawn : \E iv \in Drawn :
          Commit(SaveWrite(At(adv), p, ok, salt, iv))

RenameDone(p) ==
    /\ Runnable(p, "sv_rename")
    /\ \E ok \in IoOutcomes : Commit(SaveRename(Cur, p, ok))

CacheAfterSave(p) ==
    /\ Runnable(p, "sv_cache")
    /\ \E adv \in Clock : Commit(SaveCache(At(adv), p))

Unlock(p) ==
    /\ Runnable(p, "sv_unlock")
    /\ Commit(SaveUnlock(Cur, p))

\* finally { connection.release() }
PublicRelease(p) ==
    /\ Runnable(p, "pub_rel")
    /\ Commit(Finish(releaseConnection(Cur, p), p, Status(procs[p].err), <<>>))

(***************************************************************************)
(* Initial states.                                                         *)
(***************************************************************************)
DefaultAuth ==
    [r \in {"admin", "editor", "reader"} |->
        CASE r = "admin" -> {"query", "insert", "update", "delete", "index"}
          [] r = "editor" -> {"query", "insert", "update"}
          [] r = "reader" -> {"query"}]

FileOf(content) == [ex |-> TRUE, content |-> content, mtime |-> 0]

\* a freshly constructed engine over a database directory, beside the
\* backup directories `dirs`
InitEngineOver(callers, dirs) ==
    /\ tmpFiles = [c \in Colls |-> NoFile]
    /\ indexFiles = {}
    /\ backupDirs = dirs
    /\ cache = [order |-> <<>>, ent |-> [c \in Colls |-> NoEntry]]
    /\ arrs = <<>>
    /\ rows = <<>>
    /\ indexes = <<>>
    /\ queryPatterns = [c \in Colls |-> <<>>]
    /\ transactions = <<>>
    /\ activeTransactions = {}
    /\ connectionPool = [active |-> 0, queue |-> <<>>]
    /\ fileLocks = {}
    /\ procs = [p \in callers |-> IdleProc]
    /\ now = 0
    /\ calls = <<>>
    /\ backupFiles = [c \in Colls |-> NoBackups]

InitEngineFor(callers) == InitEngineOver(callers, <<>>)

InitEngine == InitEngineFor(Procs)

(***************************************************************************)
(* SpecMut: concurrent insert, update and delete on one collection.        *)
(***************************************************************************)
InitMut ==
    /\ InitEngine
    /\ config = PlainConfig
    /\ auth = DefaultAuth
    /\ role = "admin"
    /\ files \in {[c \in Colls |-> NoFile],
                  [c \in Colls |-> IF c = "A" THEN FileOf(<<Rec(1, 0)>>) ELSE NoFile]}
    /\ faults = MaxFaults

MutSteps(p) ==
    \/ MutEnter(p)
    \/ LoadReadDone(p)
    \/ MutApply(p)
    \/ WriteDone(p)
    \/ RenameDone(p)
    \/ CacheAfterSave(p)
    \/ Unlock(p)
    \/ PublicRelease(p)

NextMut ==
    \/ \E p \in Procs : \E c \in Colls : \E r \in InsertRecs :
          Len(calls) < MaxCalls /\ insert(p, c, r)
    \/ \E p \in Procs : Len(calls) < MaxCalls /\ update(p, "A", KeyFilter(1), Changes)
    \/ \E p \in Procs : Len(calls) < MaxCalls /\ delete(p, "A", KeyFilter(1))
    \/ \E p \in Procs : MutSteps(p)

SpecMut == InitMut /\ [][NextMut]_vars

\* the records a collection holds on disk
Records(c) == IF files[c].ex THEN files[c].content ELSE <<>>

Returned(p, op, st) == Idle(p) /\ procs[p].res.op = op /\ procs[p].res.st = st

\* C1: when the only two calls made are inserts into the same collection and
\* both succeeded, whatever their interleaving, the collection holds its
\* earlier records plus both inserted ones, so at least two records.
C1_ConcurrentInsertsBothKept ==
    (/\ Len(calls) = 2
     /\ \A p \in Procs : Returned(p, "insert", "ok") /\ procs[p].res.arg = "A")
    => Len(Records("A")) >= 2

\* a caller is inside the critical section of withFileLock
InCritical(p) == procs[p].pc \in {"sv_write", "sv_rename", "sv_cache", "sv_unlock"}

\* C2: at every moment at most one caller is inside the critical section of
\* withFileLock for a given path, and the path of a caller inside is locked.
C2_MutualExclusion ==
    \A p \in Procs :
        InCritical(p) =>
            /\ procs[p].coll \in fileLocks
            /\ \A q \in Procs \ {p} :
                   InCritical(q) => procs[q].coll # procs[p].coll

\* C2 witness: one caller is inside the critical section while another waits
\* for the lock of the same path
C2_Witness ==
    \E p \in Procs : \E q \in Procs \ {p} :
        /\ InCritical(p)
        /\ procs[q].blocked = "lock"
        /\ procs[q].coll = procs[p].coll

(***************************************************************************)
(* Transactions                                                            *)
(***************************************************************************)
TxError == "TRANSACTION_ERROR"

NewTransaction == [operations |-> <<>>, backups |-> <<>>, status |-> "pending"]

HasBackup(tx, c) == \E j \in 1 .. Len(tx.backups) : tx.backups[j].coll = c

\* the operation the commit loop of caller p is at
CurrentOp(s, p) == s.transactions[s.procs[p].tx].operations[s.procs[p].i]

\* rollbackTransaction returns (e = "") or throws to the code that called it
RollbackReturn(s, p, e) ==
    IF s.procs[p].rbret = "commit" THEN Finish(s, p, TxError, <<>>)
    ELSE IF s.procs[p].rbret = "close" /\ e = ""
    THEN [s EXCEPT !.procs[p].pc = "cl_next"]
    ELSE Finish(s, p, Status(e), <<>>)

\* the loop over transaction.backups, up to the next await
RollbackHead(s, p) ==
    IF s.procs[p].i > Len(s.transactions[s.procs[p].tx].backups)
    THEN RollbackReturn(
             [s EXCEPT !.transactions[s.procs[p].tx].status = "rolled_back",
                       !.activeTransactions = @ \ {s.procs[p].tx}],
             p, "")
    ELSE SaveEnter(
             [s EXCEPT
                !.procs[p].coll =
                    s.transactions[s.procs[p].tx].backups[s.procs[p].i].coll,
                !.procs[p].data =
                    s.transactions[s.procs[p].tx].backups[s.procs[p].i].arr],
             p, "rb_next")

\* rollbackTransaction from its first statement
RollbackEnter(s, p) ==
    IF s.procs[p].tx \notin s.activeTransactions
    THEN RollbackReturn(s, p, TxError)
    ELSE RollbackHead([s EXCEPT !.procs[p].i = 1], p)

\* saveFile(collection, backup) returned or threw
RollbackNext(s, p) ==
    IF s.procs[p].err # ""
    THEN RollbackReturn([s EXCEPT !.procs[p].err = ""], p, TxError)
    ELSE RollbackHead([s EXCEPT !.procs[p].i = @ + 1], p)

\* the catch block of commitTransaction
CommitFail(s, p) ==
    RollbackEnter([s EXCEPT !.procs[p].err = "", !.procs[p].rbret = "commit"], p)

\* the switch of executeOperation, up to the first await of the *Internal
\* method it calls
ExecDispatch(s, p) ==
    IF CurrentOp(s, p).type = "insert" /\ CurrentOp(s, p).data # Undefined
    THEN LoadEnter([s EXCEPT !.procs[p].mk = "insert",
                             !.procs[p].rec = CurrentOp(s, p).data,
                             !.procs[p].mutret = "cm_next"], p, "m_mut")
    ELSE IF /\ CurrentOp(s, p).type = "update"
            /\ CurrentOp(s, p).filter # Undefined
            /\ CurrentOp(s, p).changes # Undefined
    THEN LoadEnter([s EXCEPT !.procs[p].mk = "update",
                             !.procs[p].filter = CurrentOp(s, p).filter,
                             !.procs[p].changes = CurrentOp(s, p).changes,
                             !.procs[p].mutret = "cm_next"], p, "m_mut")
    ELSE IF CurrentOp(s, p).type = "delete" /\ CurrentOp(s, p).filter # Undefined
    THEN LoadEnter([s EXCEPT !.procs[p].mk = "delete",
                             !.procs[p].filter = CurrentOp(s, p).filter,
                             !.procs[p].mutret = "cm_next"], p, "m_mut")
    ELSE [s EXCEPT !.procs[p].pc = "cm_next"]

\* executeOperation up to its first await
ExecEnter(s, p) ==
    IF HasBackup(s.transactions[s.procs[p].tx], CurrentOp(s, p).collection)
    THEN ExecDispatch([s EXCEPT !.procs[p].coll = CurrentOp(s, p).collection], p)
    ELSE LoadEnter([s EXCEPT !.procs[p].coll = CurrentOp(s, p).collection], p, "x_bk")

\* transaction.backups.set(operation.collection, [...currentData])
ExecBackup(s, p) ==
    IF s.procs[p].err # "" THEN CommitFail(s, p)
    ELSE ExecDispatch(
             [s EXCEPT !.arrs = Append(@, s.arrs[s.procs[p].data]),
                       !.transactions[s.procs[p].tx].backups =
                           Append(@, [coll |-> s.procs[p].coll,
                                      arr |-> Len(s.arrs) + 1])],
             p)

\* the head of the loop over transaction.operations
CommitHead(s, p) ==
    IF s.procs[p].i > Len(s.transactions[s.procs[p].tx].operations)
    THEN Finish([s EXCEPT !.transactions[s.procs[p].tx].status = "committed",
                          !.activeTransactions = @ \ {s.procs[p].tx}],
                p, "ok", <<>>)
    ELSE ExecEnter(s, p)

\* C5 mutant: the commit loop steps over the operation after the one replayed
CommitNextSkip(s, p) ==
    IF s.procs[p].err # "" THEN CommitFail(s, p)
    ELSE CommitHead([s EXCEPT !.procs[p].i = @ + 2], p)

\* executeOperation returned or threw
CommitNext(s, p) ==
    IF s.procs[p].err # "" THEN CommitFail(s, p)
    ELSE CommitHead([s EXCEPT !.procs[p].i = @ + 1], p)

\* C7 mutant: commitTransaction without the lookup's "not found" check
CommitEnterNoLookup(s, p) ==
    IF s.procs[p].tx > Len(s.transactions) THEN Finish(s, p, "ok", <<>>)
    ELSE CommitHead([s EXCEPT !.procs[p].i = 1], p)

\* commitTransaction from its first statement
CommitEnter(s, p) ==
    IF s.procs[p].tx \notin s.activeTransactions THEN Finish(s, p, TxError, <<>>)
    ELSE CommitHead([s EXCEPT !.procs[p].i = 1], p)

\* the transaction id is the position of the Transaction in `transactions`
beginTransaction(p) ==
    /\ Idle(p) /\ Len(transactions) < MaxTx
    /\ Commit(Finish([Start(Cur, p, "beginTransaction", [tx |-> Len(transactions) + 1])
                         EXCEPT !.transactions = Append(@, NewTransaction),
                                !.activeTransactions = @ \cup {Len(transactions) + 1}],
                     p, "ok", <<Len(transactions) + 1>>))

commitTransaction(p, t) ==
    /\ Idle(p)
    /\ \E adv \in Clock :
          Commit(CommitEnter(Start(At(adv), p, "commitTransaction", [tx |-> t]), p))

rollbackTransaction(p, t) ==
    /\ Idle(p)
    /\ Commit(RollbackEnter(
                  Start(Cur, p, "rollbackTransaction", [tx |-> t, rbret |-> "pub"]), p))

\* loadFile returned to executeOperation
ExecBackupDone(p) ==
    /\ Runnable(p, "x_bk")
    /\ \E adv \in Clock : Commit(ExecBackup(At(adv), p))

CommitStep(p) ==
    /\ Runnable(p, "cm_next")
    /\ \E adv \in Clock : Commit(CommitNext(At(adv), p))

RollbackStep(p) ==
    /\ Runnable(p, "rb_next")
    /\ Commit(RollbackNext(Cur, p))

(***************************************************************************)
(* SpecTxn: callers that begin a transaction, insert while it is active,   *)
(* and commit it or roll it back.                                          *)
(***************************************************************************)
TxIds == 1 .. MaxTx

TxnFiles == [c \in Colls |-> IF c = "A" THEN FileOf(<<Rec(1, 0)>>) ELSE NoFile]

\* the records of the collections before any call
TxnRecords(c) == IF TxnFiles[c].ex THEN TxnFiles[c].content ELSE <<>>

InitTxn ==
    /\ InitEngine
    /\ config = PlainConfig
    /\ auth = DefaultAuth
    /\ role = "admin"
    /\ files = TxnFiles
    /\ faults = 0

NextTxn ==
    \/ \E p \in Procs : Len(calls) < MaxTxnCalls /\ beginTransaction(p)
    \/ \E p \in Procs : \E c \in Colls :
          /\ Len(calls) < MaxTxnCalls
          /\ activeTransactions # {}
          /\ insert(p, c, Rec(2, 0))
    \/ \E p \in Procs : \E t \in TxIds :
          Len(calls) < MaxTxnCalls /\ commitTransaction(p, t)
    \/ \E p \in Procs : \E t \in TxIds :
          /\ Len(calls) < MaxTxnCalls
          /\ \A q \in Procs : Idle(q)
          /\ rollbackTransaction(p, t)
    \/ \E p \in Procs : MutSteps(p)

SpecTxn == InitTxn /\ [][NextTxn]_vars

Call(op, arg, tx) == [op |-> op, arg |-> arg, tx |-> tx]

IsMutation(call) == call.op \in {"insert", "update", "delete"}

\* C3: after beginTransaction, an insert into A and an insert into B (both
\* returned), rollbackTransaction of that transaction leaves the records of
\* A and of B as they were before the transaction began.
C3_RollbackRestoresBoth ==
    (/\ Len(calls) = 4
     /\ calls[1] = Call("beginTransaction", "", 1)
     /\ {calls[2], calls[3]} = {Call("insert", "A", 0), Call("insert", "B", 0)}
     /\ calls[4] = Call("rollbackTransaction", "", 1)
     /\ \E p \in Procs : Returned(p, "rollbackTransaction", "ok")
     /\ \A p \in Procs : Idle(p))
    => \A c \in Colls : Records(c) = TxnRecords(c)

\* C4: once the mutations issued since beginTransaction have returned, the
\* pending operation list of the active transaction holds them in issue
\* order, and its backup map holds the pre-image of every collection they
\* refer to.
C4_MutationsRecorded ==
    \A t \in activeTransactions :
        (\A p \in Procs : Idle(p)) =>
            /\ Len(transactions[t].operations) = Len(SelectSeq(calls, IsMutation))
            /\ \A i \in 1 .. Len(transactions[t].operations) :
                  /\ transactions[t].operations[i].type =
                         SelectSeq(calls, IsMutation)[i].op
                  /\ transactions[t].operations[i].collection =
                         SelectSeq(calls, IsMutation)[i].arg
            /\ \A i \in 1 .. Len(SelectSeq(calls, IsMutation)) :
                  \E j \in 1 .. Len(transactions[t].backups) :
                      /\ transactions[t].backups[j].coll =
                             SelectSeq(calls, IsMutation)[i].arg
                      /\ Stringify(Cur, transactions[t].backups[j].arr) =
                             TxnRecords(transactions[t].backups[j].coll)

\* C7: a commitTransaction or rollbackTransaction whose id is not in the
\* active-transaction table throws a transaction error and changes no file,
\* cache entry or transaction; and the status of a transaction that is no
\* longer pending never changes.
C7_UnknownIdAndFinalStatus ==
    [][/\ \A t \in 1 .. Len(transactions) :
             transactions[t].status # "pending" =>
                 transactions'[t].status = transactions[t].status
       /\ (/\ Len(calls') = Len(calls) + 1
           /\ calls'[Len(calls')].op \in {"commitTransaction", "rollbackTransaction"}
           /\ calls'[Len(calls')].tx \notin activeTransactions)
          => /\ \E p \in Procs :
                   /\ procs[p].op = "idle"
                   /\ procs'[p].op = "idle"
                   /\ procs'[p].res.op = calls'[Len(calls')].op
                   /\ procs'[p].res.st = TxError
             /\ files' = files
             /\ tmpFiles' = tmpFiles
             /\ cache' = cache
             /\ transactions' = transactions
             /\ activeTransactions' = activeTransactions
      ]_vars

\* C7 witness: a commit or rollback of a transaction that was already
\* committed or rolled back has thrown the transaction error
C7_Witness ==
    \E p \in Procs :
        /\ Idle(p)
        /\ procs[p].res.op \in {"commitTransaction", "rollbackTransaction"}
        /\ procs[p].res.st = TxError
        /\ procs[p].res.tx \in 1 .. Len(transactions)
        /\ transactions[procs[p].res.tx].status # "pending"

(***************************************************************************)
(* SpecStaged: transactions whose operation lists are filled the way the   *)
(* specification's Enqueue step describes, then committed or rolled back   *)
(* by a client that awaits each call before it makes the next.             *)
(***************************************************************************)
InsertOp(c, r) ==
    [type |-> "insert", collection |-> c, data |-> r, filter |-> Undefined,
     changes |-> Undefined]
UpdateOp(c, f, ch) ==
    [type |-> "update", collection |-> c, data |-> Undefined, filter |-> f,
     changes |-> ch]
DeleteOp(c, f) ==
    [type |-> "delete", collection |-> c, data |-> Undefined, filter |-> f,
     changes |-> Undefined]

StagedOps ==
    { InsertOp("A", Rec(2, 0)), InsertOp("B", Rec(2, 0)),
      UpdateOp("A", KeyFilter(1), Changes),
      DeleteOp("A", KeyFilter(1)), DeleteOp("A", BadFilter) }

\* Enqueue: a mutation inside a transaction is recorded as a pending operation
Stage(t, op) ==
    /\ t \in activeTransactions
    /\ \A p \in Procs : Idle(p)
    /\ Len(transactions[t].operations) < MaxOps
    /\ Commit([Cur EXCEPT !.transactions[t].operations = Append(@, op)])

InitStaged ==
    /\ InitEngine
    /\ config = PlainConfig
    /\ auth = DefaultAuth
    /\ role = "admin"
    /\ files = TxnFiles
    /\ faults = MaxFaults

NextStaged ==
    \/ \E p \in Procs : Len(calls) < MaxStagedCalls /\ beginTransaction(p)
    \/ \E t \in TxIds : \E op \in StagedOps : Stage(t, op)
    \/ \E p \in Procs : \E t \in TxIds :
          /\ Len(calls) < MaxStagedCalls
          /\ \A q \in Procs : Idle(q)
          /\ commitTransaction(p, t)
    \/ \E p \in Procs : \E t \in TxIds :
          /\ Len(calls) < MaxStagedCalls
          /\ \A q \in Procs : Idle(q)
          /\ rollbackTransaction(p, t)
    \/ \E p \in Procs : ExecBackupDone(p)
    \/ \E p \in Procs : CommitStep(p)
    \/ \E p \in Procs : RollbackStep(p)
    \/ \E p \in Procs : LoadReadDone(p)
    \/ \E p \in Procs : MutApply(p)
    \/ \E p \in Procs : WriteDone(p)
    \/ \E p \in Procs : RenameDone(p)
    \/ \E p \in Procs : CacheAfterSave(p)
    \/ \E p \in Procs : Unlock(p)

SpecStaged == InitStaged /\ [][NextStaged]_vars

\* one operation applied to the records of collection c
ApplyOp(recs, op, c) ==
    IF op.collection # c THEN recs
    ELSE IF op.type = "insert" THEN Append(recs, op.data)
    ELSE IF op.type = "update"
    THEN [i \in 1 .. Len(recs) |->
             IF matchFilter(recs[i], op.filter) = "T"
             THEN ObjectAssign(recs[i], op.changes) ELSE recs[i]]
    ELSE SelectSeq(recs, LAMBDA r : matchFilter(r, op.filter) # "T")

\* the operations ops[i..] applied one after another
RECURSIVE ApplyOps(_, _, _, _)
ApplyOps(recs, ops, i, c) ==
    IF i > Len(ops) THEN recs ELSE ApplyOps(ApplyOp(recs, ops[i], c), ops, i + 1, c)

\* the only calls made are beginTransaction and one commitTransaction of the
\* transaction begun, which returned with status st
OnlyCommitReturned(st) ==
    /\ calls = <<Call("beginTransaction", "", 1), Call("commitTransaction", "", 1)>>
    /\ \E p \in Procs : Returned(p, "commitTransaction", st)

\* C5: a commitTransaction that returns leaves every collection as its
\* operations, applied one after another in list order to the records
\* observed at commit, leave it, and the transaction is no longer in the
\* active-transaction table.
C5_CommitAppliesInOrder ==
    OnlyCommitReturned("ok") =>
        /\ \A c \in Colls :
              Records(c) = ApplyOps(TxnRecords(c), transactions[1].operations, 1, c)
        /\ 1 \notin activeTransactions
        /\ transactions[1].status = "committed"

\* C5 witness: a commit of two operations has returned
C5_Witness ==
    /\ OnlyCommitReturned("ok")
    /\ Len(transactions[1].operations) = 2
    /\ \E c \in Colls : Records(c) # TxnRecords(c)

Digit == <<"0", "1", "2", "3", "4", "5", "6", "7", "8", "9">>

RECURSIVE NumStr(_)
NumStr(n) == IF n < 10 THEN Digit[n + 1] ELSE NumStr(n \div 10) \o Digit[(n % 10) + 1]

\* String(item[field] ?? 'null')
IndexKey(v) ==
    IF v \in {Null, Undefined} THEN "null"
    ELSE IF v = NaN THEN "NaN"
    ELSE IF IsNum(v) THEN NumStr(v.num)
    ELSE IF IsStr(v) THEN v.str
    ELSE IF IsBool(v) THEN (IF v.bool THEN "true" ELSE "false")
    ELSE "[object]"

\* data.forEach((item, i) => ...): the index as <<key, positions>> pairs in
\* the order the keys were first met
RECURSIVE BuildIndex(_, _, _, _)
BuildIndex(recs, f, i, idx) ==
    IF i > Len(recs) THEN idx
    ELSE BuildIndex(recs, f, i + 1,
             IF \E j \in 1 .. Len(idx) : idx[j][1] = IndexKey(GetField(recs[i], f))
             THEN [j \in 1 .. Len(idx) |->
                      IF idx[j][1] = IndexKey(GetField(recs[i], f))
                      THEN <<idx[j][1], Append(idx[j][2], i - 1)>> ELSE idx[j]]
             ELSE Append(idx, <<IndexKey(GetField(recs[i], f)), <<i - 1>>>>))

hasIndex(s, c, f) ==
    \E j \in 1 .. Len(s.indexes) : s.indexes[j].coll = c /\ s.indexes[j].field = f

\* this.indexes.set(indexKey, index)
IndexesSet(ixs, c, f, idx) ==
    IF \E j \in 1 .. Len(ixs) : ixs[j].coll = c /\ ixs[j].field = f
    THEN [j \in 1 .. Len(ixs) |->
             IF ixs[j].coll = c /\ ixs[j].field = f
             THEN [coll |-> c, field |-> f, idx |-> idx] ELSE ixs[j]]
    ELSE Append(ixs, [coll |-> c, field |-> f, idx |-> idx])

\* this.indexes.delete(indexKey)
IndexesDelete(ixs, c, f) == SelectSeq(ixs, LAMBDA e : ~(e.coll = c /\ e.field = f))

IndexFileExists(s, c, f) == \E x \in s.indexFiles : x.coll = c /\ x.field = f

\* generateIndex returns (e = "") or throws to the code that called it
GenReturn(s, p, e) ==
    IF s.procs[p].gret = "q_loop"
    THEN IF e # "" THEN Finish(releaseConnection(s, p), p, e, <<>>)
         ELSE [s EXCEPT !.procs[p].pc = "q_loop", !.procs[p].i = @ + 1]
    ELSE Finish(s, p, Status(e), <<>>)

\* generateIndex from its first statement
GenEnter(s, p) ==
    IF ~checkPermission(s, "index") THEN GenReturn(s, p, "PERMISSION_DENIED")
    ELSE acquireConnection([s EXCEPT !.procs[p].pc = "g_enter"], p)

\* after loadFile: build the index, store it, start writing the index file
GenBuild(s, p) ==
    IF s.procs[p].err # ""
    THEN GenReturn(releaseConnection([s EXCEPT !.procs[p].err = ""], p), p,
                   s.procs[p].err)
    ELSE [s EXCEPT
            !.indexes = IndexesSet(@, s.procs[p].coll, s.procs[p].fld,
                            BuildIndex(RowsOf(s, s.procs[p].data),
                                       s.procs[p].fld, 1, <<>>)),
            !.procs[p].raw = BuildIndex(RowsOf(s, s.procs[p].data),
                                        s.procs[p].fld, 1, <<>>),
            !.procs[p].pc = "g_write"]

\* writeFile(indexPath) completes or fails; finally connection.release()
GenWrite(s, p, ok) ==
    IF ok
    THEN GenReturn(
             releaseConnection(
                 [s EXCEPT !.indexFiles =
                      {x \in @ : ~(x.coll = s.procs[p].coll /\ x.field = s.procs[p].fld)}
                      \cup {[coll |-> s.procs[p].coll, field |-> s.procs[p].fld,
                             idx |-> s.procs[p].raw]},
                           !.procs[p].raw = <<>>], p),
             p, "")
    ELSE GenReturn(
             releaseConnection([s EXCEPT !.faults = @ - 1, !.procs[p].raw = <<>>], p),
             p, "IO_ERROR")

generateIndex(p, c, f) ==
    /\ Idle(p)
    /\ Commit(GenEnter(Start(Cur, p, "generateIndex",
                             [coll |-> c, fld |-> f, gret |-> "pub"]), p))

\* the connection is granted: generateIndex calls loadFile
GenLoad(p) ==
    /\ Runnable(p, "g_enter")
    /\ \E adv \in Clock : Commit(LoadEnter(At(adv), p, "g_build"))

GenBuildDone(p) ==
    /\ Runnable(p, "g_build")
    /\ Commit(GenBuild(Cur, p))

GenWriteDone(p) ==
    /\ Runnable(p, "g_write")
    /\ \E ok \in IoOutcomes : Commit(GenWrite(Cur, p, ok))

\* dropIndex up to its await
DropIndexEnter(s, p) ==
    IF ~checkPermission(s, "index") THEN Finish(s, p, "PERMISSION_DENIED", <<>>)
    ELSE IF IndexFileExists(s, s.procs[p].coll, s.procs[p].fld)
    THEN [s EXCEPT !.indexes = IndexesDelete(@, s.procs[p].coll, s.procs[p].fld),
                   !.procs[p].pc = "di_unlink"]
    ELSE Finish([s EXCEPT !.indexes = IndexesDelete(@, s.procs[p].coll, s.procs[p].fld)],
                p, "ok", <<>>)

\* unlink(indexPath) takes effect, or fails when the file is gone
UnlinkIndex(s, p, ret) ==
    IF IndexFileExists(s, s.procs[p].coll, s.procs[p].fld)
    THEN [s EXCEPT !.indexFiles =
              {x \in @ : ~(x.coll = s.procs[p].coll /\ x.field = s.procs[p].fld)},
                   !.procs[p].pc = ret]
    ELSE [s EXCEPT !.procs[p].err = "ENOENT", !.procs[p].pc = ret]

dropIndex(p, c, f) ==
    /\ Idle(p)
    /\ Commit(DropIndexEnter(Start(Cur, p, "dropIndex", [coll |-> c, fld |-> f]), p))

DropIndexUnlinked(p) ==
    /\ Runnable(p, "di_unlink")
    /\ Commit(Finish(UnlinkIndex(Cur, p, "di_done"), p,
                     Status(UnlinkIndex(Cur, p, "di_done").procs[p].err), <<>>))

(***************************************************************************)
(* queryObject                                                             *)
(***************************************************************************)
\* queryPatterns[collection][key] = (queryPatterns[collection][key] || 0) + 1
BumpPattern(pats, f) ==
    IF \E j \in 1 .. Len(pats) : pats[j][1] = f
    THEN [j \in 1 .. Len(pats) |->
             IF pats[j][1] = f THEN <<f, pats[j][2] + 1>> ELSE pats[j]]
    ELSE Append(pats, <<f, 1>>)

\* for (const key in query.filter) if (!key.startsWith('$')) ...
RECURSIVE BumpKeys(_, _, _)
BumpKeys(pats, pairs, i) ==
    IF i > Len(pairs) THEN pats
    ELSE BumpKeys(IF IsDollar(pairs[i][1]) THEN pats ELSE BumpPattern(pats, pairs[i][1]),
                  pairs, i + 1)

\* the loop over Object.entries(queryPatterns[collection]), up to the next
\* await: a generateIndex, or the loadFile after the loop
RECURSIVE QueryLoop(_, _)
QueryLoop(s, p) ==
    IF s.procs[p].i > Len(s.procs[p].ents) THEN LoadEnter(s, p, "q_eval")
    ELSE IF /\ s.procs[p].ents[s.procs[p].i][2] > AutoIndexThreshold
            /\ ~hasIndex(s, s.procs[p].coll, s.procs[p].ents[s.procs[p].i][1])
    THEN GenEnter([s EXCEPT !.procs[p].fld = s.procs[p].ents[s.procs[p].i][1],
                            !.procs[p].gret = "q_loop"], p)
    ELSE QueryLoop([s EXCEPT !.procs[p].i = @ + 1], p)

\* the connection is granted: count the filter's fields, then enter the loop
QueryCount(s, p) ==
    LET c == s.procs[p].coll
        pats == IF c \in DOMAIN s.queryPatterns THEN s.queryPatterns[c] ELSE <<>>
        bumped == IF IsFilterObj(s.procs[p].filter)
                  THEN BumpKeys(pats, s.procs[p].filter.f, 1) ELSE pats
    IN [s EXCEPT
          !.queryPatterns = [n \in DOMAIN @ \cup {c} |-> IF n = c THEN bumped ELSE @[n]],
          !.procs[p].ents = bumped,
          !.procs[p].i = 1]

\* the comparator of data.sort: negative, zero or positive
RECURSIVE Compare(_, _, _, _)
Compare(a, b, sort, i) ==
    IF i > Len(sort) THEN 0
    ELSE IF /\ GetField(a, sort[i][1]) \in {Null, Undefined}
            /\ GetField(b, sort[i][1]) \in {Null, Undefined}
    THEN Compare(a, b, sort, i + 1)
    ELSE IF GetField(a, sort[i][1]) \in {Null, Undefined}
    THEN (IF sort[i][2] = 1 THEN -1 ELSE 1)
    ELSE IF GetField(b, sort[i][1]) \in {Null, Undefined}
    THEN (IF sort[i][2] = 1 THEN 1 ELSE -1)
    ELSE IF Less(GetField(a, sort[i][1]), GetField(b, sort[i][1]))
    THEN (IF sort[i][2] = 1 THEN -1 ELSE 1)
    ELSE IF Less(GetField(b, sort[i][1]), GetField(a, sort[i][1]))
    THEN (IF sort[i][2] = 1 THEN 1 ELSE -1)
    ELSE Compare(a, b, sort, i + 1)

\* Array.prototype.sort is stable: row id x goes after the last row that does
\* not compare greater than it
RECURSIVE InsertRow(_, _, _, _)
InsertRow(s, sorted, x, sort) ==
    IF sorted = <<>> THEN <<x>>
    ELSE IF Compare(s.rows[sorted[Len(sorted)]], s.rows[x], sort, 1) > 0
    THEN Append(InsertRow(s, SubSeq(sorted, 1, Len(sorted) - 1), x, sort),
                sorted[Len(sorted)])
    ELSE Append(sorted, x)

RECURSIVE SortRows(_, _, _)
SortRows(s, ids, sort) ==
    IF ids = <<>> THEN <<>>
    ELSE InsertRow(s, SortRows(s, SubSeq(ids, 1, Len(ids) - 1), sort),
                   ids[Len(ids)], sort)

\* data.slice(skip), data.slice(0, limit): zero counts as not given
Paginate(ids, skip, limit) ==
    SubSeq(SubSeq(ids, IF skip > 0 THEN skip + 1 ELSE 1, Len(ids)),
           1,
           IF limit > 0 /\ limit < Len(SubSeq(ids, IF skip > 0 THEN skip + 1 ELSE 1, Len(ids)))
           THEN limit
           ELSE Len(SubSeq(ids, IF skip > 0 THEN skip + 1 ELSE 1, Len(ids))))

projectFields(row, fields) ==
    IF fields = Undefined \/ fields.list = <<>> THEN row
    ELSE [f \in {fields.list[j] : j \in 1 .. Len(fields.list)} \cap DOMAIN row |-> row[f]]

\* the rows to return, given the ids left by the filter (sorted in place:
\* with no filter the array sorted is the one loadFile returned)
QueryResult(s, p, ids) ==
    Finish(releaseConnection(
               IF s.procs[p].filter = Undefined /\ s.procs[p].query.sort # <<>>
               THEN [s EXCEPT !.arrs[s.procs[p].data] =
                        SortRows(s, ids, s.procs[p].query.sort)]
               ELSE s, p),
           p, "ok",
           [j \in 1 .. Len(Paginate(ids, s.procs[p].query.skip, s.procs[p].query.limit)) |->
               projectFields(
                   s.rows[Paginate(IF s.procs[p].query.sort # <<>>
                                   THEN SortRows(s, ids, s.procs[p].query.sort)
                                   ELSE ids,
                                   s.procs[p].query.skip, s.procs[p].query.limit)[j]],
                   s.procs[p].query.fields)])

\* after loadFile: filter, sort, paginate, project; finally release
QueryEval(s, p) ==
    IF s.procs[p].err # ""
    THEN Finish(releaseConnection(s, p), p, s.procs[p].err, <<>>)
    ELSE IF s.procs[p].filter = Undefined
    THEN QueryResult(s, p, s.arrs[s.procs[p].data])
    ELSE IF FilterRows(s, p, 1, "T").err
    THEN Finish(releaseConnection(s, p), p, "FILTER_ERROR", <<>>)
    ELSE QueryResult(s, p, FilterRows(s, p, 1, "T").kept)

queryObject(p, c, f, o) ==
    /\ Idle(p)
    /\ Commit(IF ~checkPermission(Cur, "query")
              THEN Finish(Start(Cur, p, "queryObject", [coll |-> c]), p,
                          "PERMISSION_DENIED", <<>>)
              ELSE acquireConnection(
                       Start(Cur, p, "queryObject",
                             [coll |-> c, filter |-> f, query |-> o, pc |-> "q_start"]),
                       p))

\* the connection is granted
QueryStart(p) ==
    /\ Runnable(p, "q_start")
    /\ \E adv \in Clock : Commit(QueryLoop(QueryCount(At(adv), p), p))

\* generateIndex returned to the loop
QueryResume(p) ==
    /\ Runnable(p, "q_loop")
    /\ \E adv \in Clock : Commit(QueryLoop(At(adv), p))

QueryEvalDone(p) ==
    /\ Runnable(p, "q_eval")
    /\ Commit(QueryEval(Cur, p))

(***************************************************************************)
(* SpecQuery: callers that query one collection again and again, under a   *)
(* role that has `query`.                                                  *)
(***************************************************************************)
QueryFiles ==
    [c \in Colls |-> IF c = "A" THEN FileOf(<<Rec(1, 0), Rec(2, 0)>>) ELSE NoFile]

SortDesc == [NoOptions EXCEPT !.sort = << <<"k", -1>> >>]

InitQuery ==
    /\ InitEngine
    /\ config = PlainConfig
    /\ auth = DefaultAuth
    /\ role \in {"reader", "admin"}
    /\ files = QueryFiles
    /\ faults = 0

NextQuery ==
    \/ \E p \in Procs :
          Len(calls) < MaxQueryCalls /\ queryObject(p, "A", KeyFilter(1), NoOptions)
    \/ \E p \in Procs :
          Len(calls) < MaxQueryCalls /\ queryObject(p, "A", Undefined, SortDesc)
    \/ \E p \in Procs : QueryStart(p)
    \/ \E p \in Procs : QueryResume(p)
    \/ \E p \in Procs : QueryEvalDone(p)
    \/ \E p \in Procs : GenLoad(p)
    \/ \E p \in Procs : GenBuildDone(p)
    \/ \E p \in Procs : GenWriteDone(p)
    \/ \E p \in Procs : LoadReadDone(p)

SpecQuery == InitQuery /\ [][NextQuery]_vars

\* C9: under a role that has the `query` action no queryObject call ends in
\* a permission error, however many queries went before it.
C9_QueryNeedsOnlyQuery ==
    \A p \in Procs :
        (Idle(p) /\ procs[p].res.op = "queryObject" /\ checkPermission(Cur, "query"))
        => procs[p].res.st # "PERMISSION_DENIED"

(***************************************************************************)
(* createCollection, dropCollection, listCollections, validateCollection,  *)
(* clearCache, close                                                       *)
(***************************************************************************)
\* checkPermission(action); acquireConnection()
Guarded(s, p, action, label) ==
    IF ~checkPermission(s, action) THEN Finish(s, p, "PERMISSION_DENIED", <<>>)
    ELSE acquireConnection([s EXCEPT !.procs[p].pc = label], p)

\* the connection is granted
CreateStart(s, p) ==
    IF ~validateCollectionName(s.procs[p].coll)
    THEN Finish(releaseConnection(s, p), p, "VALIDATION_ERROR", <<>>)
    ELSE IF s.files[s.procs[p].coll].ex
    THEN Finish(releaseConnection(s, p), p, "VALIDATION_ERROR", <<>>)
    ELSE SaveEnter([s EXCEPT !.arrs = Append(@, <<>>),
                             !.procs[p].data = Len(s.arrs) + 1], p, "pub_rel")

createCollection(p, c) ==
    /\ Idle(p)
    /\ Commit(Guarded(Start(Cur, p, "createCollection", [coll |-> c]), p,
                      "create_collection", "cc_start"))

CreateStarted(p) ==
    /\ Runnable(p, "cc_start")
    /\ Commit(CreateStart(Cur, p))

\* the loop over this.indexes.keys(), up to the next await, and what follows it
RECURSIVE DropIndexes(_, _)
DropIndexes(s, p) ==
    IF \E j \in 1 .. Len(s.indexes) : s.indexes[j].coll = s.procs[p].coll
    THEN LET f == s.indexes[CHOOSE j \in 1 .. Len(s.indexes) :
                        /\ s.indexes[j].coll = s.procs[p].coll
                        /\ \A k \in 1 .. (j - 1) : s.indexes[k].coll # s.procs[p].coll].field
         IN IF IndexFileExists(s, s.procs[p].coll, f)
            THEN [s EXCEPT !.indexes = IndexesDelete(@, s.procs[p].coll, f),
                           !.procs[p].fld = f,
                           !.procs[p].pc = "dc_idx"]
            ELSE DropIndexes([s EXCEPT !.indexes = IndexesDelete(@, s.procs[p].coll, f)], p)
    ELSE Finish(releaseConnection(
                    [s EXCEPT !.queryPatterns[s.procs[p].coll] = <<>>], p),
                p, "ok", <<>>)

\* dropCollection after the collection file is gone
DropRest(s, p) == DropIndexes(CacheDelete(s, s.procs[p].coll), p)

\* unlink(filePath) takes effect, or fails when the file is gone
DropUnlink(s, p) ==
    IF s.files[s.procs[p].coll].ex
    THEN DropRest([s EXCEPT !.files[s.procs[p].coll] = NoFile], p)
    ELSE Finish(releaseConnection(s, p), p, "ENOENT", <<>>)

dropCollection(p, c) ==
    /\ Idle(p)
    /\ Commit(Guarded(Start(Cur, p, "dropCollection", [coll |-> c]), p,
                      "drop_collection", "dc_start"))

DropStarted(p) ==
    /\ Runnable(p, "dc_start")
    /\ Commit(IF ~validateCollectionName(procs[p].coll)
              THEN Finish(releaseConnection(Cur, p), p, "VALIDATION_ERROR", <<>>)
              ELSE IF files[procs[p].coll].ex
              THEN [Cur EXCEPT !.procs[p].pc = "dc_unlink"]
              ELSE DropRest(Cur, p))

DropUnlinked(p) ==
    /\ Runnable(p, "dc_unlink")
    /\ Commit(DropUnlink(Cur, p))

DropIndexUnlinkedInLoop(p) ==
    /\ Runnable(p, "dc_idx")
    /\ Commit(IF IndexFileExists(Cur, procs[p].coll, procs[p].fld)
              THEN DropIndexes(UnlinkIndex(Cur, p, "dc_idx"), p)
              ELSE Finish(releaseConnection(Cur, p), p, "ENOENT", <<>>))

\* readdirSync(database): the names of the collection files
CollectionNames(s) == SelectSeq(CollSeq, LAMBDA c : s.files[c].ex)

listCollections(p) ==
    /\ Idle(p)
    /\ Commit(Finish(Start(Cur, p, "listCollections", [coll |-> ""]), p, "ok",
                     CollectionNames(Cur)))

validateCollection(p, c) ==
    /\ Idle(p)
    /\ \E adv \in Clock :
          Commit(LoadEnter(Start(At(adv), p, "validateCollection", [coll |-> c]),
                           p, "v_done"))

\* loadFile returned or threw: the error is caught and reported
ValidateDone(p) ==
    /\ Runnable(p, "v_done")
    /\ Commit(Finish(Cur, p, "ok", <<[isValid |-> procs[p].err = ""]>>))

clearCache(p) ==
    /\ Idle(p)
    /\ Commit(Finish(CacheClear(Start(Cur, p, "clearCache", [coll |-> ""])), p, "ok", <<>>))

\* the pending transactions, in the order of the table
PendingTransactions(s) ==
    SelectSeq([t \in 1 .. Len(s.transactions) |-> t],
              LAMBDA t : t \in s.activeTransactions
                         /\ s.transactions[t].status = "pending")

\* the loop over pendingTransactions, up to the next await, and what follows
CloseLoop(s, p) ==
    IF s.procs[p].ents = <<>>
    THEN Finish(CacheClear([s EXCEPT !.indexes = <<>>]), p, "ok", <<>>)
    ELSE RollbackEnter([s EXCEPT !.procs[p].tx = Head(s.procs[p].ents),
                                 !.procs[p].ents = Tail(@),
                                 !.procs[p].rbret = "close"], p)

close(p) ==
    /\ Idle(p)
    /\ Commit(CloseLoop(Start(Cur, p, "close", [ents |-> PendingTransactions(Cur)]), p))

\* rollbackTransaction returned to close
CloseStep(p) ==
    /\ Runnable(p, "cl_next")
    /\ Commit(CloseLoop(Cur, p))

(***************************************************************************)
(* backup and restore.  Every backup gets a directory of its own (the      *)
(* directory's name carries the time of the call).                         *)
(***************************************************************************)
NoManifest == [ex |-> FALSE, collections |-> <<>>, mode |-> ""]

NoCopy == [ex |-> FALSE, content |-> <<>>]

\* mkdirSync(backupDir)
NewBackupDir ==
    [files |-> [c \in Colls |-> NoCopy], hasAuth |-> FALSE, auth |-> <<>>,
     manifest |-> NoManifest]

\* after the collection files: the metadata files, then the manifest
BackupMeta(s, p) == [s EXCEPT !.procs[p].pc = "bk_meta"]

\* the loop over collections, up to the next await
BackupLoop(s, p) ==
    IF s.procs[p].i <= Len(s.procs[p].ents)
    THEN [s EXCEPT !.procs[p].pc = "bk_copy"]
    ELSE BackupMeta(s, p)

BackupEnter(s, p) ==
    IF ~checkPermission(s, "backup") THEN Finish(s, p, "PERMISSION_DENIED", <<>>)
    ELSE BackupLoop([s EXCEPT !.backupDirs = Append(@, NewBackupDir),
                              !.procs[p].dir = Len(s.backupDirs) + 1,
                              !.procs[p].ents = CollectionNames(s),
                              !.procs[p].i = 1], p)

\* copyFile(sourcePath, destPath) takes effect, or fails when the source is gone
BackupCopy(s, p, c) ==
    IF s.files[c].ex
    THEN BackupLoop([s EXCEPT !.backupDirs[s.procs[p].dir].files[c] =
                                  [ex |-> TRUE, content |-> s.files[c].content],
                              !.procs[p].i = @ + 1], p)
    ELSE Finish(s, p, "BACKUP_ERROR", <<>>)

backup(p) ==
    /\ Idle(p)
    /\ Len(backupDirs) < MaxBackups
    /\ Commit(BackupEnter(Start(Cur, p, "backup", [coll |-> ""]), p))

BackupCopied(p) ==
    /\ Runnable(p, "bk_copy")
    /\ Commit(BackupCopy(Cur, p, procs[p].ents[procs[p].i]))

\* the copy of .auth
BackupMetaCopied(p) ==
    /\ Runnable(p, "bk_meta")
    /\ Commit([Cur EXCEPT !.backupDirs[procs[p].dir].hasAuth = TRUE,
                          !.backupDirs[procs[p].dir].auth = auth,
                          !.procs[p].pc = "bk_manifest"])

BackupManifestWritten(p) ==
    /\ Runnable(p, "bk_manifest")
    /\ Commit(Finish([Cur EXCEPT !.backupDirs[procs[p].dir].manifest =
                                     [ex |-> TRUE, collections |-> procs[p].ents,
                                      mode |-> config.mode]],
                     p, "ok", <<>>))

\* the loop over manifest.collections, up to the next await, and what follows
RECURSIVE RestoreLoop(_, _)
RestoreLoop(s, p) ==
    IF s.procs[p].i <= Len(s.procs[p].ents)
    THEN IF s.backupDirs[s.procs[p].dir].files[s.procs[p].ents[s.procs[p].i]].ex
         THEN [s EXCEPT !.procs[p].pc = "rs_copy"]
         ELSE RestoreLoop([s EXCEPT !.procs[p].i = @ + 1], p)
    ELSE IF s.backupDirs[s.procs[p].dir].hasAuth
    THEN [s EXCEPT !.procs[p].pc = "rs_meta"]
    ELSE Finish(s, p, "ok", <<>>)

\* restore without this.cache.clear()
RestoreEnterNoClear(s, p, d) ==
    IF ~checkPermission(s, "restore") THEN Finish(s, p, "PERMISSION_DENIED", <<>>)
    ELSE IF d > Len(s.backupDirs) THEN Finish(s, p, "RESTORE_ERROR", <<>>)
    ELSE IF ~s.backupDirs[d].manifest.ex THEN Finish(s, p, "RESTORE_ERROR", <<>>)
    ELSE IF s.backupDirs[d].manifest.mode # s.config.mode THEN Finish(s, p, "RESTORE_ERROR", <<>>)
    ELSE RestoreLoop([s EXCEPT !.indexes = <<>>,
                               !.procs[p].dir = d,
                               !.procs[p].ents = s.backupDirs[d].manifest.collections,
                               !.procs[p].i = 1], p)

RestoreEnter(s, p, d) ==
    IF ~checkPermission(s, "restore") THEN Finish(s, p, "PERMISSION_DENIED", <<>>)
    ELSE IF d > Len(s.backupDirs) THEN Finish(s, p, "RESTORE_ERROR", <<>>)
    ELSE IF ~s.backupDirs[d].manifest.ex THEN Finish(s, p, "RESTORE_ERROR", <<>>)
    ELSE IF s.backupDirs[d].manifest.mode # s.config.mode THEN Finish(s, p, "RESTORE_ERROR", <<>>)
    ELSE RestoreLoop(CacheClear([s EXCEPT !.indexes = <<>>,
                                          !.procs[p].dir = d,
                                          !.procs[p].ents = s.backupDirs[d].manifest.collections,
                                          !.procs[p].i = 1]), p)

\* copyFile(sourcePath, destPath) takes effect
RestoreCopy(s, p, c) ==
    RestoreLoop([s EXCEPT !.files[c] = [ex |-> TRUE,
                                        content |-> s.backupDirs[s.procs[p].dir].files[c].content,
                                        mtime |-> s.now],
                          !.procs[p].i = @ + 1], p)

restore(p, d) ==
    /\ Idle(p)
    /\ Commit(RestoreEnter(Start(Cur, p, "restore", [coll |-> ""]), p, d))

RestoreCopied(p) ==
    /\ Runnable(p, "rs_copy")
    /\ \E adv \in Clock : Commit(RestoreCopy(At(adv), p, procs[p].ents[procs[p].i]))

\* the copy of .auth, then loadUsersAndAuth()
RestoreMetaCopied(p) ==
    /\ Runnable(p, "rs_meta")
    /\ Commit(Finish([Cur EXCEPT !.auth = backupDirs[procs[p].dir].auth], p, "ok", <<>>))

(***************************************************************************)
(* getCollectionStats                                                      *)
(***************************************************************************)
\* the entries of this.indexes whose key starts with the collection's name
IndexesOf(ixs, c) == SelectSeq(ixs, LAMBDA e : e.coll = c)

\* after loadFile: statSync(filePath) throws when the file is absent
StatsDone(s, p) ==
    IF s.procs[p].err # ""
    THEN Finish(releaseConnection(s, p), p, s.procs[p].err, <<>>)
    ELSE IF ~s.files[s.procs[p].coll].ex
    THEN Finish(releaseConnection(s, p), p, "ENOENT", <<>>)
    ELSE Finish(releaseConnection(s, p), p, "ok",
                <<[documentCount |-> Len(s.arrs[s.procs[p].data]),
                   indexes |-> [j \in 1 .. Len(IndexesOf(s.indexes, s.procs[p].coll)) |->
                                   IndexesOf(s.indexes, s.procs[p].coll)[j].field]]>>)

getCollectionStats(p, c) ==
    /\ Idle(p)
    /\ Commit(Guarded(Start(Cur, p, "getCollectionStats", [coll |-> c]), p,
                      "query", "gs_start"))

StatsLoad(p) ==
    /\ Runnable(p, "gs_start")
    /\ \E adv \in Clock : Commit(LoadEnter(At(adv), p, "gs_done"))

StatsLoaded(p) ==
    /\ Runnable(p, "gs_done")
    /\ Commit(StatsDone(Cur, p))

(***************************************************************************)
(* SpecPerm: one client calls the public methods one after the other,      *)
(* under each role of the auth table and under a role that is not in it.   *)
(***************************************************************************)
Actions ==
    {"query", "insert", "update", "delete", "create_collection", "drop_collection",
     "index", "backup", "restore"}

\* an auth table with the default roles, an administrator of every action
\* and a role that is allowed nothing
FullAuth ==
    [r \in {"admin", "editor", "reader", "guest"} |->
        CASE r = "admin" -> Actions
          [] r = "editor" -> {"query", "insert", "update"}
          [] r = "reader" -> {"query"}
          [] r = "guest" -> {}]

Roles == {"admin", "editor", "reader", "guest", "nobody"}

\* the action each public method passes to checkPermission
RequiredAction(op) ==
    CASE op \in {"queryObject", "getCollectionStats"} -> "query"
      [] op = "insert" -> "insert"
      [] op = "update" -> "update"
      [] op = "delete" -> "delete"
      [] op \in {"generateIndex", "dropIndex"} -> "index"
      [] op = "createCollection" -> "create_collection"
      [] op = "dropCollection" -> "drop_collection"
      [] op = "backup" -> "backup"
      [] op = "restore" -> "restore"
      [] OTHER -> ""

InitPerm ==
    /\ InitEngine
    /\ config = PlainConfig
    /\ auth = FullAuth
    /\ role \in Roles
    /\ files = TxnFiles
    /\ faults = 0

CanCall == Len(calls) < MaxPermCalls /\ \A q \in Procs : Idle(q)

NextPerm ==
    \/ \E p \in Procs : CanCall /\ queryObject(p, "A", KeyFilter(1), NoOptions)
    \/ \E p \in Procs : CanCall /\ insert(p, "A", Rec(2, 0))
    \/ \E p \in Procs : CanCall /\ update(p, "A", KeyFilter(1), Changes)
    \/ \E p \in Procs : CanCall /\ delete(p, "A", KeyFilter(1))
    \/ \E p \in Procs : CanCall /\ generateIndex(p, "A", "k")
    \/ \E p \in Procs : CanCall /\ dropIndex(p, "A", "k")
    \/ \E p \in Procs : \E c \in Colls : CanCall /\ createCollection(p, c)
    \/ \E p \in Procs : \E c \in Colls : CanCall /\ dropCollection(p, c)
    \/ \E p \in Procs : CanCall /\ listCollections(p)
    \/ \E p \in Procs : CanCall /\ getCollectionStats(p, "A")
    \/ \E p \in Procs : CanCall /\ validateCollection(p, "A")
    \/ \E p \in Procs : CanCall /\ clearCache(p)
    \/ \E p \in Procs : CanCall /\ backup(p)
    \/ \E p \in Procs : CanCall /\ restore(p, 1)
    \/ \E p \in Procs : CanCall /\ beginTransaction(p)
    \/ \E p \in Procs : \E t \in TxIds : CanCall /\ commitTransaction(p, t)
    \/ \E p \in Procs : \E t \in TxIds : CanCall /\ rollbackTransaction(p, t)
    \/ \E p \in Procs : CanCall /\ close(p)
    \/ \E p \in Procs : MutEnter(p)
    \/ \E p \in Procs : LoadReadDone(p)
    \/ \E p \in Procs : MutApply(p)
    \/ \E p \in Procs : WriteDone(p)
    \/ \E p \in Procs : RenameDone(p)
    \/ \E p \in Procs : CacheAfterSave(p)
    \/ \E p \in Procs : Unlock(p)
    \/ \E p \in Procs : PublicRelease(p)
    \/ \E p \in Procs : QueryStart(p)
    \/ \E p \in Procs : QueryEvalDone(p)
    \/ \E p \in Procs : GenLoad(p)
    \/ \E p \in Procs : GenBuildDone(p)
    \/ \E p \in Procs : GenWriteDone(p)
    \/ \E p \in Procs : DropIndexUnlinked(p)
    \/ \E p \in Procs : CreateStarted(p)
    \/ \E p \in Procs : DropStarted(p)
    \/ \E p \in Procs : DropUnlinked(p)
    \/ \E p \in Procs : DropIndexUnlinkedInLoop(p)
    \/ \E p \in Procs : StatsLoad(p)
    \/ \E p \in Procs : StatsLoaded(p)
    \/ \E p \in Procs : ValidateDone(p)
    \/ \E p \in Procs : BackupCopied(p)
    \/ \E p \in Procs : BackupMetaCopied(p)
    \/ \E p \in Procs : BackupManifestWritten(p)
    \/ \E p \in Procs : RestoreCopied(p)
    \/ \E p \in Procs : RestoreMetaCopied(p)
    \/ \E p \in Procs : CloseStep(p)

SpecPerm == InitPerm /\ [][NextPerm]_vars

\* C8: a call of an operation whose action the configured role lacks, or
\* under a role that the auth table does not have, throws the permission
\* error at once and leaves collection files, index files, cache, in-memory
\* indexes, query-pattern counters and the connection pool as they were.
C8_DeniedCallChangesNothing ==
    [][(/\ Len(calls') = Len(calls) + 1
        /\ RequiredAction(calls'[Len(calls')].op) # ""
        /\ \/ role \notin DOMAIN auth
           \/ RequiredAction(calls'[Len(calls')].op) \notin auth[role])
       => /\ \E p \in Procs :
                /\ procs[p].op = "idle"
                /\ procs'[p].op = "idle"
                /\ procs'[p].res.op = calls'[Len(calls')].op
                /\ procs'[p].res.st = "PERMISSION_DENIED"
          /\ files' = files
          /\ tmpFiles' = tmpFiles
          /\ indexFiles' = indexFiles
          /\ cache' = cache
          /\ indexes' = indexes
          /\ queryPatterns' = queryPatterns
          /\ connectionPool' = connectionPool
      ]_vars

\* C8 witness: a call was refused under a role of the table that lacks the
\* action, after an earlier call had put an entry in the cache
C8_Witness ==
    /\ role \in DOMAIN auth
    /\ cache.order # <<>>
    /\ \E p \in Procs :
          /\ Idle(p)
          /\ RequiredAction(procs[p].res.op) # ""
          /\ RequiredAction(procs[p].res.op) \notin auth[role]
          /\ procs[p].res.st = "PERMISSION_DENIED"

\* C10: under a role whose action list is empty no call does anything but
\* throw the permission error: no transaction exists, nothing is cached or
\* indexed, and the collection files are the initial ones.
C10_EmptyRoleDoesNothing ==
    (role \in DOMAIN auth /\ auth[role] = {})
    => /\ \A p \in Procs : procs[p].res.st \in {"", "PERMISSION_DENIED"}
       /\ transactions = <<>>
       /\ activeTransactions = {}
       /\ cache.order = <<>>
       /\ indexes = <<>>
       /\ files = TxnFiles

(***************************************************************************)
(* SpecSave: saves that can stop part-way, fail, or be cut short by the    *)
(* end of the process.                                                     *)
(***************************************************************************)
\* C11 mutant: the first k records reach the collection file itself
WriteTornInPlace(s, p, k) ==
    [s EXCEPT !.files[s.procs[p].coll] =
                  [ex |-> TRUE, content |-> SubSeq(s.procs[p].raw, 1, k) \o <<Torn>>,
                   mtime |-> s.now]]

\* writeFile(tempPath, raw) under way: the first k records are in the
\* temporary file
WriteTorn(s, p, k) ==
    [s EXCEPT !.tmpFiles[s.procs[p].coll] =
                  [ex |-> TRUE, content |-> SubSeq(s.procs[p].raw, 1, k) \o <<Torn>>,
                   mtime |-> s.now]]

WritePartial(p) ==
    /\ Runnable(p, "sv_write")
    /\ ~tmpFiles[procs[p].coll].ex \/ ~IsTorn(tmpFiles[procs[p].coll].content)
    /\ \E k \in 0 .. Len(procs[p].raw) : Commit(WriteTorn(Cur, p, k))

\* the process ends and a new engine is constructed over the same directory:
\* the files stay, everything in memory is gone
Restarted(s) ==
    [s EXCEPT !.cache = [order |-> <<>>, ent |-> [c \in Colls |-> NoEntry]],
              !.arrs = <<>>,
              !.rows = <<>>,
              !.indexes = <<>>,
              !.queryPatterns = [c \in Colls |-> <<>>],
              !.transactions = <<>>,
              !.activeTransactions = {},
              !.connectionPool = [active |-> 0, queue |-> <<>>],
              !.fileLocks = {},
              !.procs = [p \in Procs |-> IdleProc]]

Crash ==
    /\ \E p \in Procs : ~Idle(p)
    /\ Commit(Restarted(Cur))

InitSave ==
    /\ InitEngine
    /\ config = PlainConfig
    /\ auth = DefaultAuth
    /\ role = "admin"
    /\ files = TxnFiles
    /\ faults = MaxFaults

NextSave ==
    \/ \E p \in Procs : Len(calls) < MaxSaveCalls /\ insert(p, "A", Rec(2, 0))
    \/ \E p \in Procs : Len(calls) < MaxSaveCalls /\ update(p, "A", KeyFilter(1), Changes)
    \/ \E p \in Procs : MutSteps(p)
    \/ \E p \in Procs : WritePartial(p)
    \/ Crash

SpecSave == InitSave /\ [][NextSave]_vars

Saver == 1

\* arrays of records: empty, in two orders, and with the values a record
\* can hold (null, arrays, strings, NaN, undefined)
RoundArrays ==
    { <<>>,
      <<Rec(2, 0), Rec(1, 0)>>,
      <<[k |-> Null, v |-> ArrV(<<Num(1), Str(<<"a">>)>>)], [k |-> Bool(TRUE)]>>,
      <<[k |-> Num(1), v |-> NaN]>>,
      <<[k |-> Num(1), v |-> Undefined]>> }

\* the caller's array: new records in a new array
CallerArray(s, p, R) == ParseInto(s, p, R)

saveFile(p, c, R) ==
    /\ Idle(p)
    /\ Commit(SaveEnter(CallerArray(Start(Cur, p, "saveFile", [coll |-> c, given |-> R]),
                                    p, R), p, "sf_done"))

SaveReturned(p) ==
    /\ Runnable(p, "sf_done")
    /\ Commit(Finish(Cur, p, Status(procs[p].err), <<>>))

loadFile(p, c) ==
    /\ Idle(p)
    /\ \E adv \in Clock :
          Commit(LoadEnter(Start(At(adv), p, "loadFile", [coll |-> c]), p, "lf_done"))

LoadReturned(p) ==
    /\ Runnable(p, "lf_done")
    /\ Commit(Finish(Cur, p, Status(procs[p].err),
                     IF procs[p].err = "" THEN RowsOf(Cur, procs[p].data) ELSE <<>>))

InitRound ==
    /\ InitEngine
    /\ config \in {PlainConfig, EncryptedConfig}
    /\ auth = DefaultAuth
    /\ role = "admin"
    /\ files = [c \in Colls |-> NoFile]
    /\ faults = 0

CanCallRound == Len(calls) < MaxRoundCalls /\ \A q \in Procs : Idle(q)

NextRound ==
    \/ \E R \in RoundArrays : CanCallRound /\ saveFile(Saver, "A", R)
    \/ \E p \in Procs \ {Saver} : CanCallRound /\ loadFile(p, "A")
    \/ \E p \in Procs : CanCallRound /\ clearCache(p)
    \/ \E p \in Procs : LoadReadDone(p)
    \/ \E p \in Procs : WriteDone(p)
    \/ \E p \in Procs : RenameDone(p)
    \/ \E p \in Procs : CacheAfterSave(p)
    \/ \E p \in Procs : Unlock(p)
    \/ \E p \in Procs : SaveReturned(p)
    \/ \E p \in Procs : LoadReturned(p)

SpecRound == InitRound /\ [][NextRound]_vars

\* a value that JSON text can hold
IsJsonValue(v) ==
    /\ v \notin {NaN, Undefined}
    /\ IsArr(v) => \A i \in 1 .. Len(v.arr) : v.arr[i] \notin {NaN, Undefined}

IsJsonArray(R) ==
    \A i \in 1 .. Len(R) : \A f \in DOMAIN R[i] : IsJsonValue(R[i][f])

\* C12 as stated: a loadFile of a collection that returns while the last
\* thing the saver did was a successful saveFile of R to that collection
\* returns R, for every R.
C12_RoundTrip ==
    [][\A q \in Procs \ {Saver} :
          (/\ procs[q].op = "loadFile"
           /\ procs'[q].op = "idle"
           /\ procs[Saver].res.op = "saveFile"
           /\ procs[Saver].res.arg = procs[q].coll
           /\ procs[Saver].res.st = "ok")
          => /\ procs'[q].res.st = "ok"
             /\ procs'[q].res.val = procs[Saver].res.given
      ]_vars

\* C12 amended: the same for every R whose values JSON text can hold
\* (strings, finite numbers, booleans, null, arrays of these).
C12_RoundTripJson ==
    [][\A q \in Procs \ {Saver} :
          (/\ procs[q].op = "loadFile"
           /\ procs'[q].op = "idle"
           /\ procs[Saver].res.op = "saveFile"
           /\ procs[Saver].res.arg = procs[q].coll
           /\ procs[Saver].res.st = "ok"
           /\ IsJsonArray(procs[Saver].res.given))
          => /\ procs'[q].res.st = "ok"
             /\ procs'[q].res.val = procs[Saver].res.given
      ]_vars

\* C12 witness: in encrypted mode an array of two records was saved, the
\* cache was cleared, and the load that followed returned the two records
C12_Witness ==
    /\ config.mode = "encrypted"
    /\ Len(calls) = 3
    /\ calls[1].op = "saveFile"
    /\ calls[2].op = "clearCache"
    /\ calls[3].op = "loadFile"
    /\ calls[3].arg = calls[1].arg
    /\ \E q \in Procs \ {Saver} :
          /\ Idle(q)
          /\ procs[q].res.op = "loadFile"
          /\ procs[q].res.st = "ok"
          /\ Len(procs[q].res.val) = 2
          /\ procs[q].res.val = procs[Saver].res.given

(***************************************************************************)
(* SpecStale: a backup, then inserts that overlap a restore of it, then    *)
(* loads that run alone.                                                   *)
(***************************************************************************)
NoLoadInFlight == \A q \in Procs : procs[q].op # "loadFile"

NextStale ==
    \/ \E p \in Procs : Len(calls) < MaxStaleCalls /\ NoLoadInFlight /\ backup(p)
    \/ \E p \in Procs : Len(calls) < MaxStaleCalls /\ NoLoadInFlight /\ restore(p, 1)
    \/ \E p \in Procs :
          Len(calls) < MaxStaleCalls /\ NoLoadInFlight /\ insert(p, "A", Rec(2, 0))
    \/ \E p \in Procs :
          Len(calls) < MaxStaleCalls /\ (\A q \in Procs : Idle(q)) /\ loadFile(p, "A")
    \/ \E p \in Procs : MutEnter(p)
    \/ \E p \in Procs : LoadReadDone(p)
    \/ \E p \in Procs : MutApply(p)
    \/ \E p \in Procs : WriteDone(p)
    \/ \E p \in Procs : RenameDone(p)
    \/ \E p \in Procs : CacheAfterSave(p)
    \/ \E p \in Procs : Unlock(p)
    \/ \E p \in Procs : PublicRelease(p)
    \/ \E p \in Procs : BackupCopied(p)
    \/ \E p \in Procs : BackupMetaCopied(p)
    \/ \E p \in Procs : BackupManifestWritten(p)
    \/ \E p \in Procs : RestoreCopied(p)
    \/ \E p \in Procs : RestoreMetaCopied(p)
    \/ \E p \in Procs : LoadReturned(p)

InitStale ==
    /\ InitEngine
    /\ config = PlainConfig
    /\ auth = FullAuth
    /\ role = "admin"
    /\ files = TxnFiles
    /\ faults = 0

SpecStale == InitStale /\ [][NextStale]_vars

\* C13: a loadFile that runs while nothing else is in flight returns the
\* records that the collection file holds, whatever saves and restores
\* went before it.
C13_LoadReturnsFileRecords ==
    [][\A q \in Procs :
          (/\ procs[q].op = "loadFile"
           /\ procs'[q].op = "idle"
           /\ procs'[q].res.st = "ok")
          => procs'[q].res.val = Records(procs[q].coll)
      ]_vars

(***************************************************************************)
(* The size of the cache                                                   *)
(***************************************************************************)
\* the collections that have a cache entry
Cached == {c \in Colls : cache.ent[c].has}

CachedRecords(c) == RowsOf(Cur, cache.ent[c].data)

\* C15: a queryObject call (with or without sort, skip, limit, projection)
\* leaves the cache entry of the collection unchanged: while queries are the
\* only calls made, an entry that is there before and after a step holds the
\* same records with the same field values in the same order.
C15_QueryLeavesCacheUnchanged ==
    [][\A c \in Colls :
          (cache.ent[c].has /\ cache'.ent[c].has)
          => CachedRecords(c)' = CachedRecords(c)
      ]_vars

(***************************************************************************)
(* SpecPool: more callers than pool connections; every call takes one      *)
(* connection and holds it across a load.                                  *)
(***************************************************************************)
PoolCallers == 1 .. MaxPoolCallers

InitPool ==
    /\ InitEngineFor(PoolCallers)
    /\ config = [PlainConfig EXCEPT !.maxConnections = MaxPoolConnections]
    /\ auth = DefaultAuth
    /\ role = "admin"
    /\ files = QueryFiles
    /\ faults = 0

NextPool ==
    \/ \E p \in PoolCallers :
          Len(calls) < MaxPoolCalls /\ queryObject(p, "A", Undefined, NoOptions)
    \/ \E p \in PoolCallers :
          Len(calls) < MaxPoolCalls /\ getCollectionStats(p, "A")
    \/ \E p \in PoolCallers : QueryStart(p)
    \/ \E p \in PoolCallers : QueryEvalDone(p)
    \/ \E p \in PoolCallers : StatsLoad(p)
    \/ \E p \in PoolCallers : StatsLoaded(p)
    \/ \E p \in PoolCallers : LoadReadDone(p)

SpecPool == InitPool /\ [][NextPool]_vars

\* the callers that hold a pool connection, and those that wait for one
Holders == {p \in DOMAIN procs : procs[p].conns > 0}
Waiting(p) == procs[p].blocked = "conn"

\* C16: the number of callers holding a pool connection never exceeds
\* maxConnections; a caller that arrives when the pool is full waits at the
\* end of the queue, and a waiting caller is granted a connection only in a
\* step in which a holder releases one, and only when no other waiting caller
\* arrived before it.
C16_PoolBoundedFifo ==
    /\ [](/\ Cardinality(Holders) <= config.maxConnections
          /\ connectionPool.active <= config.maxConnections)
    /\ [][\A q \in DOMAIN procs :
            /\ (/\ Idle(q) /\ ~Idle(q)'
                /\ Cardinality(Holders) = config.maxConnections)
               => /\ Waiting(q)' /\ procs'[q].conns = 0
                  /\ connectionPool'.queue = Append(connectionPool.queue, q)
            /\ (Waiting(q) /\ ~Waiting(q)')
               => /\ \E h \in Holders \ {q} : procs'[h].conns < procs[h].conns
                  /\ procs'[q].conns = 1
                  /\ q = Head(connectionPool.queue)
                  /\ connectionPool'.queue = Tail(connectionPool.queue)
         ]_vars

\* C16 witness: one caller has returned, the caller that waited first holds
\* the connection and the caller that arrived after it still waits
C16_Witness ==
    \E h, q, w \in DOMAIN procs :
        /\ Returned(h, procs[h].res.op, "ok") /\ procs[h].res.op # ""
        /\ procs[q].conns = 1
        /\ Waiting(w)
        /\ connectionPool.queue = <<w>>
        /\ Len(calls) = 3

(***************************************************************************)
(* SpecLock: callers that save to one collection at the same time, so that *)
(* several of them wait for the lock of its path.                          *)
(***************************************************************************)
LockCallers == 1 .. MaxLockCallers

InitLock ==
    /\ InitEngineFor(LockCallers)
    /\ config = PlainConfig
    /\ auth = DefaultAuth
    /\ role = "admin"
    /\ files = [c \in Colls |-> NoFile]
    /\ faults = MaxFaults

NextLock ==
    \/ \E p \in LockCallers :
          Len(calls) < MaxLockCalls /\ saveFile(p, "A", <<Rec(p, 0)>>)
    \/ \E p \in LockCallers : WriteDone(p)
    \/ \E p \in LockCallers : RenameDone(p)
    \/ \E p \in LockCallers : CacheAfterSave(p)
    \/ \E p \in LockCallers : Unlock(p)
    \/ \E p \in LockCallers : SaveReturned(p)

SpecLock == InitLock /\ [][NextLock]_vars

\* caller p waits for the lock of the path of collection c
AwaitsLock(p, c) == procs[p].blocked = "lock" /\ procs[p].coll = c

\* C17: callers contending for the lock of one path get it first-come
\* first-served: a caller that begins to wait comes after every caller that
\* waits already, the order of the waiting callers never changes, and a caller
\* enters its critical section only when no other caller waits for the path
\* or when it has waited longer than every other one that does.
C17_LockFifo ==
    [][\A c \in Colls : \A q \in DOMAIN procs : \A w \in DOMAIN procs \ {q} :
          /\ (/\ AwaitsLock(w, c)
              /\ ~InCritical(q) /\ InCritical(q)' /\ procs'[q].coll = c)
             => AwaitsLock(q, c) /\ procs[q].turn < procs[w].turn
          /\ (AwaitsLock(w, c) /\ AwaitsLock(w, c)' /\ ~AwaitsLock(q, c) /\ AwaitsLock(q, c)')
             => procs'[w].turn < procs'[q].turn
          /\ (AwaitsLock(w, c) /\ AwaitsLock(w, c)' /\ AwaitsLock(q, c) /\ AwaitsLock(q, c)')
             => (procs[w].turn < procs[q].turn <=> procs'[w].turn < procs'[q].turn)
      ]_vars

\* C17 witness: of three callers that saved to one collection one has
\* returned, one is inside its critical section and one still waits
C17_Witness ==
    \E h, q, w \in DOMAIN procs :
        /\ Len(calls) = 3
        /\ \A i \in 1 .. 3 : calls[i].arg = "A"
        /\ Returned(h, "saveFile", "ok")
        /\ InCritical(q)
        /\ AwaitsLock(w, "A")

(***************************************************************************)
(* SpecDrop: a collection is indexed, written to and dropped, and the      *)
(* engine is closed, in any order and overlap.                             *)
(***************************************************************************)
InitDrop ==
    /\ InitEngine
    /\ config = PlainConfig
    /\ auth = FullAuth
    /\ role = "admin"
    /\ files = TxnFiles
    /\ faults = 0

NextDrop ==
    \/ \E p \in Procs : Len(calls) < MaxDropCalls /\ generateIndex(p, "A", "k")
    \/ \E p \in Procs : Len(calls) < MaxDropCalls /\ insert(p, "A", Rec(2, 0))
    \/ \E p \in Procs : Len(calls) < MaxDropCalls /\ close(p)
    \/ \E p \in Procs : Len(calls) < MaxDropCalls /\ dropCollection(p, "A")
    \/ \E p \in Procs : GenLoad(p)
    \/ \E p \in Procs : GenBuildDone(p)
    \/ \E p \in Procs : GenWriteDone(p)
    \/ \E p \in Procs : MutSteps(p)
    \/ \E p \in Procs : DropStarted(p)
    \/ \E p \in Procs : DropUnlinked(p)
    \/ \E p \in Procs : DropIndexUnlinkedInLoop(p)

SpecDrop == InitDrop /\ [][NextDrop]_vars

\* nothing of collection c is left: no collection file, no cache entry, no
\* index in memory, no index file, no query-pattern counter
NothingLeft(c) ==
    /\ ~files[c].ex
    /\ ~cache.ent[c].has
    /\ \A j \in 1 .. Len(indexes) : indexes[j].coll # c
    /\ \A x \in indexFiles : x.coll # c
    /\ queryPatterns[c] = <<>>

\* C18: at the return of a successful dropCollection(c) nothing of c is left,
\* whatever index builds, saves and close calls preceded or overlapped it.
C18_DropRemovesAll ==
    [][\A p \in Procs :
          (/\ procs[p].op = "dropCollection"
           /\ procs'[p].op = "idle"
           /\ procs'[p].res.st = "ok")
          => NothingLeft(procs[p].res.arg)'
      ]_vars

(***************************************************************************)
(* SpecCreate: callers create one collection and insert into it at the     *)
(* same time.                                                              *)
(***************************************************************************)
InitCreate ==
    /\ InitEngine
    /\ config = PlainConfig
    /\ auth = FullAuth
    /\ role = "admin"
    /\ files = [c \in Colls |-> NoFile]
    /\ faults = 0

NextCreate ==
    \/ \E p \in Procs : Len(calls) < MaxCreateCalls /\ createCollection(p, "A")
    \/ \E p \in Procs : Len(calls) < MaxCreateCalls /\ insert(p, "A", Rec(1, 0))
    \/ \E p \in Procs : CreateStarted(p)
    \/ \E p \in Procs : MutSteps(p)

SpecCreate == InitCreate /\ [][NextCreate]_vars

\* C19: createCollection(c) never replaces the records of an existing
\* collection: of two createCollection(c) calls, the only calls made, at most
\* one succeeds, and once an insert into c has succeeded and no call is in
\* flight, c holds at least one record whatever createCollection(c) calls
\* overlapped the insert.
C19_CreateNeverReplaces ==
    /\ ~(/\ Len(calls) = 2
         /\ \A p \in Procs : Returned(p, "createCollection", "ok"))
    /\ (/\ \A p \in Procs : Idle(p)
        /\ \E p \in Procs : Returned(p, "insert", "ok"))
       => Len(Records("A")) >= 1

(***************************************************************************)
(* SpecFilter: queries whose filter has a logical operator next to a field *)
(* condition, over a collection that holds every combination of the two    *)
(* fields.                                                                 *)
(***************************************************************************)
FilterFiles ==
    [c \in Colls |->
        IF c = "A"
        THEN FileOf(<<Rec(1, 0), Rec(1, 1), Rec(2, 0), Rec(2, 1)>>)
        ELSE NoFile]

\* filters with two top-level keys
TwoKeyFilters ==
    { Filter(<< <<"k", Num(1)>>, <<"v", Num(1)>> >>),
      Filter(<< <<"$or", FList(<<KeyFilter(1), KeyFilter(2)>>)>>, <<"v", Num(1)>> >>),
      Filter(<< <<"v", Num(1)>>, <<"$or", FList(<<KeyFilter(1), KeyFilter(2)>>)>> >>),
      Filter(<< <<"$and", FList(<<KeyFilter(1)>>)>>, <<"v", Num(1)>> >>),
      Filter(<< <<"$not", KeyFilter(1)>>, <<"v", Num(1)>> >>) }

InitFilter ==
    /\ InitEngine
    /\ config = PlainConfig
    /\ auth = DefaultAuth
    /\ role = "reader"
    /\ files = FilterFiles
    /\ faults = 0

NextFilter ==
    \/ \E p \in Procs : \E f \in TwoKeyFilters :
          Len(calls) < MaxFilterCalls /\ queryObject(p, "A", f, NoOptions)
    \/ \E p \in Procs : QueryStart(p)
    \/ \E p \in Procs : LoadReadDone(p)
    \/ \E p \in Procs : QueryEvalDone(p)

SpecFilter == InitFilter /\ [][NextFilter]_vars

\* the condition of every top-level key of the filter holds for the row
RECURSIVE EveryKeyHolds(_, _)
EveryKeyHolds(row, filter) ==
    \A i \in 1 .. Len(filter.f) :
        LET key == filter.f[i][1]
            value == filter.f[i][2]
        IN CASE key = "$and" ->
                    \A j \in 1 .. Len(value.flist) : EveryKeyHolds(row, value.flist[j])
             [] key = "$or" ->
                    \E j \in 1 .. Len(value.flist) : EveryKeyHolds(row, value.flist[j])
             [] key = "$not" -> ~EveryKeyHolds(row, value)
             [] OTHER -> IF IsOps(value)
                         THEN OpsHold(value.ops, 1, GetField(row, key)) = "T"
                         ELSE StrictEq(GetField(row, key), value)

\* C20: a filter with several top-level keys matches a record only if the
\* condition of every key holds, also when `$and`, `$or` or `$not` stands next
\* to field conditions: every record a query returns satisfies every key of
\* the query's filter.
C20_EveryKeyMustHold ==
    [][\A p \in Procs :
          (/\ procs[p].op = "queryObject"
           /\ procs'[p].op = "idle"
           /\ procs'[p].res.st = "ok")
          => \A j \in 1 .. Len(procs'[p].res.val) :
                EveryKeyHolds(procs'[p].res.val[j], procs[p].filter)
      ]_vars

(***************************************************************************)
(* SpecNot: queries with a filter and with its negation over one           *)
(* collection.                                                             *)
(***************************************************************************)
\* filters that hold for some records and not for others, that hold for
\* none, that hold for all, and one that throws
InnerFilters ==
    { KeyFilter(1),
      AllFilter,
      Filter(<< <<"k", Num(3)>> >>),
      Filter(<< <<"k", Ops(<< <<"$gt", Num(1)>> >>)>>, <<"v", Num(1)>> >>),
      Filter(<< <<"$or", FList(<<KeyFilter(1), Filter(<< <<"v", Num(1)>> >>)>>)>> >>),
      Filter(<< <<"$not", KeyFilter(2)>> >>),
      BadFilter }

Not(F) == Filter(<< <<"$not", F>> >>)

InitNot ==
    /\ InitEngine
    /\ config = PlainConfig
    /\ auth = DefaultAuth
    /\ role = "reader"
    /\ files = FilterFiles
    /\ faults = 0

NextNot ==
    \/ \E p \in Procs : \E F \in InnerFilters :
          Len(calls) < MaxNotCalls /\ queryObject(p, "A", Not(F), NoOptions)
    \/ \E p \in Procs : QueryStart(p)
    \/ \E p \in Procs : LoadReadDone(p)
    \/ \E p \in Procs : QueryEvalDone(p)

SpecNot == InitNot /\ [][NextNot]_vars

\* C21: for every filter F and every record r, matchFilter(r, {$not: F}) is
\* the negation of matchFilter(r, F): a query with {$not: F} returns exactly
\* the records for which F does not hold, and fails exactly when F fails on
\* some record.
C21_NotNegates ==
    [][\A p \in Procs :
          (procs[p].op = "queryObject" /\ procs'[p].op = "idle")
          => LET F == ValueOf(procs[p].filter, "$not")
                 recs == Records(procs[p].coll)
             IN IF \E i \in 1 .. Len(recs) : matchFilter(recs[i], F) = "E"
                THEN procs'[p].res.st = "FILTER_ERROR"
                ELSE /\ procs'[p].res.st = "ok"
                     /\ procs'[p].res.val =
                           SelectSeq(recs, LAMBDA r : matchFilter(r, F) = "F")
      ]_vars

\* C21 witness: a query with {$not: F} returned some of the records and left
\* out others
C21_Witness ==
    \E p \in Procs :
        /\ Returned(p, "queryObject", "ok")
        /\ Len(procs[p].res.val) \in 1 .. 3

(***************************************************************************)
(* SpecOps: queries and deletes whose filter names an operator the engine  *)
(* does not know, over an empty and over a non-empty collection.           *)
(***************************************************************************)
\* $regex alone, and $regex after an operator that does not hold for k = 1
UnknownOpFilters ==
    { BadFilter,
      Filter(<< <<"k", Ops(<< <<"$gt", Num(5)>>, <<"$regex", Num(1)>> >>)>> >>) }

InitOps ==
    /\ InitEngine
    /\ config = PlainConfig
    /\ auth = DefaultAuth
    /\ role = "admin"
    /\ files \in {[c \in Colls |-> IF c = "A" THEN FileOf(<<>>) ELSE NoFile],
                  [c \in Colls |-> IF c = "A" THEN FileOf(<<Rec(1, 0)>>) ELSE NoFile]}
    /\ faults = 0

NextOps ==
    \/ \E p \in Procs : \E F \in UnknownOpFilters :
          Len(calls) < MaxOpsCalls /\ queryObject(p, "A", F, NoOptions)
    \/ \E p \in Procs : \E F \in UnknownOpFilters :
          Len(calls) < MaxOpsCalls /\ delete(p, "A", F)
    \/ \E p \in Procs : QueryStart(p)
    \/ \E p \in Procs : QueryEvalDone(p)
    \/ \E p \in Procs : MutSteps(p)

SpecOps == InitOps /\ [][NextOps]_vars

\* C22: a query or delete whose filter contains an operator other than $gt,
\* $lt, $gte, $lte, $contains, $in, $exists fails with a validation error,
\* whatever records the collection holds.
C22_UnknownOperatorFails ==
    [][\A p \in Procs :
          (/\ procs[p].op \in {"queryObject", "delete"}
           /\ procs[p].filter \in UnknownOpFilters
           /\ procs'[p].op = "idle")
          => procs'[p].res.st \in {"VALIDATION_ERROR", "FILTER_ERROR"}
      ]_vars

(***************************************************************************)
(* SpecPage: queries with every combination of filter, sort, skip, limit   *)
(* and projection over one collection.                                     *)
(***************************************************************************)
PageOptions ==
    [sort : {<<>>, << <<"k", -1>> >>},
     skip : {NotGiven, 0, 1},
     limit : {NotGiven, 0, 1, 2},
     fields : {Undefined, Fields(<<"k">>)}]

PageFilters == {Undefined, Filter(<< <<"v", Num(1)>> >>)}

InitPage ==
    /\ InitEngine
    /\ config = PlainConfig
    /\ auth = DefaultAuth
    /\ role = "reader"
    /\ files = FilterFiles
    /\ faults = 0

NextPage ==
    \/ \E p \in Procs : \E F \in PageFilters : \E o \in PageOptions :
          Len(calls) < MaxPageCalls /\ queryObject(p, "A", F, o)
    \/ \E p \in Procs : QueryStart(p)
    \/ \E p \in Procs : LoadReadDone(p)
    \/ \E p \in Procs : QueryEvalDone(p)

SpecPage == InitPage /\ [][NextPage]_vars

\* the positions of the records of recs that match the filter, sorted
FilteredSorted(recs, F, sort) ==
    SortRows([rows |-> recs],
             SelectSeq([i \in 1 .. Len(recs) |-> i],
                       LAMBDA i : matchFilter(recs[i], F) = "T"),
             sort)

\* the positions first + 1 .. first + count of a sequence, as far as it goes
Window(xs, first, count) ==
    SubSeq(xs, first + 1, IF first + count < Len(xs) THEN first + count ELSE Len(xs))

\* C23: queryObject applies filter, then sort, then skip, then limit, then
\* projection: with skip S (none given: 0) and limit N the result is the
\* records at positions S+1..S+N of the filtered and sorted sequence, so it
\* has at most N records, for N = 0 too.
C23_SkipThenLimit ==
    [][\A p \in Procs :
          (/\ procs[p].op = "queryObject"
           /\ procs[p].query.limit # NotGiven
           /\ procs'[p].op = "idle"
           /\ procs'[p].res.st = "ok")
          => LET recs == Records(procs[p].coll)
                 q == procs[p].query
                 page == Window(FilteredSorted(recs, procs[p].filter, q.sort),
                                IF q.skip = NotGiven THEN 0 ELSE q.skip, q.limit)
             IN /\ Len(procs'[p].res.val) <= q.limit
                /\ procs'[p].res.val =
                      [j \in 1 .. Len(page) |-> projectFields(recs[page[j]], q.fields)]
      ]_vars

(***************************************************************************)
(* SpecProject: queries that project the records of one collection on      *)
(* lists of field names.                                                   *)
(***************************************************************************)
\* no name, a name every record has, a name one record has, a name none has
FieldLists == {Fields(<<>>), Fields(<<"k">>), Fields(<<"v">>), Fields(<<"k", "x">>), Fields(<<"x">>)}

InitProject ==
    /\ InitEngine
    /\ config = PlainConfig
    /\ auth = DefaultAuth
    /\ role = "reader"
    /\ files = [c \in Colls |->
                   IF c = "A" THEN FileOf(<<Rec(1, 0), [k |-> Num(2)]>>) ELSE NoFile]
    /\ faults = 0

NextProject ==
    \/ \E p \in Procs : \E fields \in FieldLists :
          /\ Len(calls) < MaxProjectCalls
          /\ queryObject(p, "A", Undefined, [NoOptions EXCEPT !.fields = fields])
    \/ \E p \in Procs : QueryStart(p)
    \/ \E p \in Procs : LoadReadDone(p)
    \/ \E p \in Procs : QueryEvalDone(p)

SpecProject == InitProject /\ [][NextProject]_vars

\* C24: for every record r and every list of field names, the empty list
\* too, the projection of r holds exactly the names of the list that are
\* keys of r, each with r's value, and no other key.
C24_ProjectionIsSubset ==
    [][\A p \in Procs :
          (/\ procs[p].op = "queryObject"
           /\ procs'[p].op = "idle"
           /\ procs'[p].res.st = "ok")
          => LET recs == Records(procs[p].coll)
                 fields == procs[p].query.fields.list
                 names == {fields[j] : j \in 1 .. Len(fields)}
             IN /\ Len(procs'[p].res.val) = Len(recs)
                /\ \A i \in 1 .. Len(recs) :
                      /\ DOMAIN procs'[p].res.val[i] = names \cap DOMAIN recs[i]
                      /\ \A f \in names \cap DOMAIN recs[i] :
                            procs'[p].res.val[i][f] = recs[i][f]
      ]_vars

(***************************************************************************)
(* aggregate.  A stage is [kind, arg]: the one key of the stage object and *)
(* its value.  A $group value is [id, out]: the `_id` mapping as <<key,     *)
(* value>> pairs (Mapping, or Null) and the other keys with their operator *)
(* objects.  A $sort value is SortSpec(pairs), a $skip or $limit value a    *)
(* number.  An operator's argument is a number, a boolean or FieldName(f).  *)
(***************************************************************************)
AggregationStage(kind, arg) == [kind |-> kind, arg |-> arg]
Mapping(pairs) == [map |-> pairs]
SortSpec(pairs) == [sort |-> pairs]
FieldName(f) == [name |-> f]
IsFieldName(v) == DOMAIN v = {"name"}

\* a value that `||` and `if` take for false
Falsy(v) == v \in {Undefined, Null, NaN, Num(0), Str(<<>>), Bool(FALSE)}

RECURSIVE Digits(_)
Digits(n) == IF n < 10 THEN <<Digit[n + 1]>> ELSE Digits(n \div 10) \o <<Digit[(n % 10) + 1]>>

\* String(v), as a sequence of characters
StringOf(v) ==
    IF IsNum(v) THEN Digits(v.num)
    ELSE IF IsStr(v) THEN v.str
    ELSE IF IsBool(v) THEN (IF v.bool THEN <<"t", "r", "u", "e">>
                            ELSE <<"f", "a", "l", "s", "e">>)
    ELSE IF v = Null THEN <<"n", "u", "l", "l">>
    ELSE IF v = NaN THEN <<"N", "a", "N">>
    ELSE <<"u", "n", "d", "e", "f", "i", "n", "e", "d">>

\* String(row[v] || row[k] || '')
KeyPart(row, k, v) ==
    IF ~Falsy(GetField(row, v)) THEN StringOf(GetField(row, v))
    ELSE IF ~Falsy(GetField(row, k)) THEN StringOf(GetField(row, k))
    ELSE <<>>

\* Object.entries(_id).map(...).join('-'), or 'null' without an _id
RECURSIVE JoinParts(_, _, _)
JoinParts(row, id, i) ==
    IF i > Len(id) THEN <<>>
    ELSE (IF i = 1 THEN <<>> ELSE <<"-">>)
         \o KeyPart(row, id[i][1], id[i][2]) \o JoinParts(row, id, i + 1)

GroupKey(row, id) ==
    IF id = Null THEN <<"n", "u", "l", "l">> ELSE JoinParts(row, id.map, 1)

\* the key is a canonical array index: Object.entries lists such keys first,
\* in ascending order
IsIndexKey(key) ==
    /\ key # <<>>
    /\ \A i \in 1 .. Len(key) : \E d \in 1 .. 10 : key[i] = Digit[d]
    /\ Len(key) = 1 \/ key[1] # "0"

RECURSIVE KeyNumber(_)
KeyNumber(key) ==
    IF key = <<>> THEN 0
    ELSE 10 * KeyNumber(SubSeq(key, 1, Len(key) - 1))
         + (CHOOSE d \in 0 .. 9 : Digit[d + 1] = key[Len(key)])

\* the keys of `groups` in the order of their first record
RECURSIVE GroupKeys(_, _, _)
GroupKeys(recs, id, i) ==
    IF i > Len(recs) THEN <<>>
    ELSE Dedup(<<GroupKey(recs[i], id)>> \o GroupKeys(recs, id, i + 1), {})

\* ascending order of index keys
RECURSIVE SortKeys(_)
SortKeys(keys) ==
    IF keys = <<>> THEN <<>>
    ELSE LET least == CHOOSE x \in {keys[i] : i \in 1 .. Len(keys)} :
                          \A i \in 1 .. Len(keys) : KeyNumber(x) <= KeyNumber(keys[i])
         IN <<least>> \o SortKeys(SelectSeq(keys, LAMBDA x : x # least))

\* Object.entries(groups): the keys in property order
EntryKeys(recs, id) ==
    SortKeys(SelectSeq(GroupKeys(recs, id, 1), IsIndexKey))
    \o SelectSeq(GroupKeys(recs, id, 1), LAMBDA x : ~IsIndexKey(x))

OpArg(ops, name) ==
    IF \E i \in 1 .. Len(ops) : ops[i][1] = name
    THEN ops[CHOOSE i \in 1 .. Len(ops) : ops[i][1] = name][2]
    ELSE Undefined

\* the numbers among row[f] of the rows
NumbersOf(grp, f) ==
    SelectSeq([i \in 1 .. Len(grp) |-> GetField(grp[i], f)], IsNum)

RECURSIVE SumOf(_)
SumOf(nums) == IF nums = <<>> THEN 0 ELSE Head(nums).num + SumOf(Tail(nums))

\* sum / rows.length: a number when the division is exact
Quotient(sum, n) ==
    IF sum % n = 0 THEN Num(sum \div n) ELSE [ratio |-> <<sum, n>>]

Extreme(nums, greatest) ==
    IF nums = <<>> THEN Null
    ELSE CHOOSE x \in {nums[i] : i \in 1 .. Len(nums)} :
            \A i \in 1 .. Len(nums) :
                IF greatest THEN nums[i].num <= x.num ELSE x.num <= nums[i].num

\* the value the operator object leaves in result[k]; the tests run in the
\* order $sum, $avg, $count, $min, $max and a later one overwrites
GroupValue(ops, grp) ==
    IF IsFieldName(OpArg(ops, "$max"))
    THEN Extreme(NumbersOf(grp, OpArg(ops, "$max").name), TRUE)
    ELSE IF IsFieldName(OpArg(ops, "$min"))
    THEN Extreme(NumbersOf(grp, OpArg(ops, "$min").name), FALSE)
    ELSE IF OpArg(ops, "$count") # Undefined /\ ~Falsy(OpArg(ops, "$count"))
    THEN Num(Len(grp))
    ELSE IF IsFieldName(OpArg(ops, "$avg"))
    THEN Quotient(SumOf(NumbersOf(grp, OpArg(ops, "$avg").name)), Len(grp))
    ELSE IF IsNum(OpArg(ops, "$sum")) THEN Num(OpArg(ops, "$sum").num * Len(grp))
    ELSE IF IsFieldName(OpArg(ops, "$sum"))
    THEN Num(SumOf(NumbersOf(grp, OpArg(ops, "$sum").name)))
    ELSE IF OpArg(ops, "$sum") # Undefined THEN Num(0)
    ELSE Undefined

\* one group's result record: _id and the keys whose operator set a value
GroupRecord(key, grp, out) ==
    LET set == {i \in 1 .. Len(out) :
                   out[i][1] # "_id" /\ GroupValue(out[i][2], grp) # Undefined}
    IN [n \in {"_id"} \cup {out[i][1] : i \in set} |->
           IF n = "_id" THEN Str(key)
           ELSE GroupValue(out[CHOOSE i \in set : out[i][1] = n /\
                                   \A j \in set : out[j][1] = n => j <= i][2], grp)]

\* the $group stage
Group(recs, g) ==
    [j \in 1 .. Len(EntryKeys(recs, g.id)) |->
        GroupRecord(EntryKeys(recs, g.id)[j],
                    SelectSeq(recs, LAMBDA r : GroupKey(r, g.id) = EntryKeys(recs, g.id)[j]),
                    g.out)]

\* the positions of recs in the order acc.sort leaves
SortedPositions(recs, sort) ==
    SortRows([rows |-> recs], [i \in 1 .. Len(recs) |-> i], sort)

\* one call of the reducer.  acc is [s, recs, loaded, err]: the state, the
\* records of the accumulator, whether the accumulator still is the array
\* loadFile returned (which $sort then sorts in place), and an exception
AggStage(acc, p, stage) ==
    IF acc.err # "" THEN acc
    ELSE IF stage.kind = "$match"
    THEN IF \E i \in 1 .. Len(acc.recs) : matchFilter(acc.recs[i], stage.arg) = "E"
         THEN [acc EXCEPT !.err = "FILTER_ERROR"]
         ELSE [acc EXCEPT !.recs = SelectSeq(@, LAMBDA r : matchFilter(r, stage.arg) = "T"),
                          !.loaded = FALSE]
    ELSE IF stage.kind = "$group"
    THEN [acc EXCEPT !.recs = Group(@, stage.arg), !.loaded = FALSE]
    ELSE IF stage.kind = "$sort"
    THEN IF acc.loaded
         THEN [acc EXCEPT
                 !.s.arrs[acc.s.procs[p].data] = SortRows(acc.s, @, stage.arg.sort),
                 !.recs = [j \in 1 .. Len(@) |-> @[SortedPositions(@, stage.arg.sort)[j]]]]
         ELSE [acc EXCEPT
                 !.recs = [j \in 1 .. Len(@) |-> @[SortedPositions(@, stage.arg.sort)[j]]]]
    ELSE IF stage.kind = "$skip" /\ stage.arg # Num(0)
    THEN [acc EXCEPT !.recs = SubSeq(@, stage.arg.num + 1, Len(@)), !.loaded = FALSE]
    ELSE IF stage.kind = "$limit" /\ stage.arg # Num(0)
    THEN [acc EXCEPT !.recs = SubSeq(@, 1, IF stage.arg.num < Len(@) THEN stage.arg.num ELSE Len(@)),
                     !.loaded = FALSE]
    ELSE acc

\* pipeline.reduce(..., data)
RECURSIVE AggReduce(_, _, _, _)
AggReduce(acc, p, pipeline, i) ==
    IF i > Len(pipeline) THEN acc
    ELSE AggReduce(AggStage(acc, p, pipeline[i]), p, pipeline, i + 1)

\* after loadFile: reduce the pipeline; finally release
AggEval(s, p) ==
    IF s.procs[p].err # ""
    THEN Finish(releaseConnection(s, p), p, s.procs[p].err, <<>>)
    ELSE LET acc == AggReduce([s |-> s, recs |-> RowsOf(s, s.procs[p].data),
                               loaded |-> TRUE, err |-> ""],
                              p, s.procs[p].pipeline, 1)
         IN Finish(releaseConnection(acc.s, p), p, Status(acc.err),
                   IF acc.err = "" THEN acc.recs ELSE <<>>)

aggregate(p, c, pipeline) ==
    /\ Idle(p)
    /\ Commit(Guarded(Start(Cur, p, "aggregate", [coll |-> c, pipeline |-> pipeline]),
                      p, "query", "ag_start"))

\* the connection is granted: aggregate calls loadFile
AggLoad(p) ==
    /\ Runnable(p, "ag_start")
    /\ \E adv \in Clock : Commit(LoadEnter(At(adv), p, "ag_eval"))

AggEvalDone(p) ==
    /\ Runnable(p, "ag_eval")
    /\ Commit(AggEval(Cur, p))

(***************************************************************************)
(* SpecGroup: aggregations over one collection whose records hold zero,    *)
(* false and a missing key next to positive numbers.                       *)
(***************************************************************************)
GroupRecords == {Rec(1, 0), Rec(1, 1), Rec(0, 1), Rec(11, 1),
                 [k |-> Bool(FALSE), v |-> Num(1)], [v |-> Num(1)]}

\* `_id` mappings: one field, two fields, a fresh name for a field
GroupIds == {Mapping(<< <<"k", "k">> >>), Mapping(<< <<"k", "k">>, <<"v", "v">> >>),
             Mapping(<< <<"key", "k">> >>)}

CountOut == << <<"n", << <<"$count", Bool(TRUE)>> >> >> >>

StatsOut == << <<"n", << <<"$count", Bool(TRUE)>> >> >>,
               <<"sum", << <<"$sum", FieldName("v")>> >> >>,
               <<"avg", << <<"$avg", FieldName("v")>> >> >>,
               <<"min", << <<"$min", FieldName("k")>> >> >>,
               <<"max", << <<"$max", FieldName("k")>> >> >>,
               <<"one", << <<"$sum", Num(1)>> >> >> >>

CountPipelines ==
    {<<AggregationStage("$group", [id |-> id, out |-> CountOut])>> : id \in GroupIds}

GroupPipelines ==
    CountPipelines \cup
    {<<AggregationStage("$group", [id |-> Null, out |-> StatsOut])>>,
     <<AggregationStage("$sort", SortSpec(<< <<"k", -1>> >>))>>,
     <<AggregationStage("$match", KeyFilter(1)),
       AggregationStage("$group", [id |-> Mapping(<< <<"v", "v">> >>), out |-> StatsOut]),
       AggregationStage("$sort", SortSpec(<< <<"n", 1>> >>)),
       AggregationStage("$skip", Num(1)),
       AggregationStage("$limit", Num(1))>>,
     <<AggregationStage("$match", BadFilter)>>}

InitGroup ==
    /\ InitEngine
    /\ config = PlainConfig
    /\ auth = DefaultAuth
    /\ role = "reader"
    /\ \E a \in GroupRecords : \E b \in GroupRecords : \E n \in 0 .. 2 :
          files = [c \in Colls |->
                      IF c = "A" THEN FileOf(SubSeq(<<a, b>>, 1, n)) ELSE NoFile]
    /\ faults = 0

NextGroup ==
    \/ \E p \in Procs : \E pipeline \in GroupPipelines :
          /\ Len(calls) < MaxGroupCalls
          /\ aggregate(p, "A", pipeline)
    \/ \E p \in Procs : AggLoad(p)
    \/ \E p \in Procs : LoadReadDone(p)
    \/ \E p \in Procs : AggEvalDone(p)

SpecGroup == InitGroup /\ [][NextGroup]_vars

\* the `-`-joined stringified values of the fields the mapping names
RECURSIVE NamedValues(_, _, _)
NamedValues(row, id, i) ==
    IF i > Len(id) THEN <<>>
    ELSE (IF i = 1 THEN <<>> ELSE <<"-">>)
         \o StringOf(GetField(row, id[i][2])) \o NamedValues(row, id, i + 1)

SameValues(a, b, id) ==
    \A i \in 1 .. Len(id) : GetField(a, id[i][2]) = GetField(b, id[i][2])

\* C25: a $group stage with an `_id` mapping and `n: {$count: true}` puts
\* every record in exactly one group, the group whose _id is the `-`-joined
\* stringified values of the named fields, and that group's n is the
\* number of records that have the same values for every named field.
C25_GroupByNamedValues ==
    [][\A p \in Procs :
          (/\ procs[p].op = "aggregate"
           /\ procs[p].pipeline \in CountPipelines
           /\ procs'[p].op = "idle"
           /\ procs'[p].res.st = "ok")
          => LET recs == Records(procs[p].coll)
                 id == procs[p].pipeline[1].arg.id.map
                 out == procs'[p].res.val
             IN \A i \in 1 .. Len(recs) :
                   /\ Cardinality({g \in 1 .. Len(out) :
                          out[g]._id = Str(NamedValues(recs[i], id, 1))}) = 1
                   /\ \A g \in 1 .. Len(out) :
                         out[g]._id = Str(NamedValues(recs[i], id, 1))
                         => out[g].n = Num(Cardinality({j \in 1 .. Len(recs) :
                                               SameValues(recs[i], recs[j], id)}))
      ]_vars

(***************************************************************************)
(* SpecUpdate: one update of a collection of three records.                *)
(***************************************************************************)
UpdateRecords == <<Rec(1, 0), Rec(2, 0), Rec(1, 1)>>

\* filters that match two records, one, all and none
UpdateFilters == {KeyFilter(1), KeyFilter(2), AllFilter, KeyFilter(3)}

\* a field the records have, one they do not have, both
UpdateChanges == {[v |-> Num(1)], [x |-> Num(5)], [v |-> Num(2), x |-> Num(5)]}

InitUpdate ==
    /\ InitEngine
    /\ config \in {PlainConfig, EncryptedConfig}
    /\ auth = DefaultAuth
    /\ role = "admin"
    /\ files = [c \in Colls |-> IF c = "A" THEN FileOf(UpdateRecords) ELSE NoFile]
    /\ faults = 0

NextUpdate ==
    \/ \E p \in Procs : \E F \in UpdateFilters : \E ch \in UpdateChanges :
          Len(calls) < MaxUpdateCalls /\ update(p, "A", F, ch)
    \/ \E p \in Procs : MutSteps(p)

SpecUpdate == InitUpdate /\ [][NextUpdate]_vars

\* what the claim says the collection holds after update(c, F, changes)
Updated(recs, F, changes) ==
    [i \in 1 .. Len(recs) |->
        IF matchFilter(recs[i], F) = "T"
        THEN [f \in DOMAIN recs[i] \cup DOMAIN changes |->
                 IF f \in DOMAIN changes THEN changes[f] ELSE recs[i][f]]
        ELSE recs[i]]

Matching(recs, F) == {i \in 1 .. Len(recs) : matchFilter(recs[i], F) = "T"}

\* the effect of update on the collection, without the returned value
UpdateEffect ==
    [][\A p \in Procs :
          (/\ procs[p].op = "update"
           /\ procs'[p].op = "idle"
           /\ procs'[p].res.st = "ok")
          => Records(procs[p].res.arg)' =
                Updated(UpdateRecords, procs[p].filter, procs[p].changes)
      ]_vars

\* C26: update(c, F, changes) sets the fields of changes in every record
\* that matches F, leaves every other field and record, the number and the
\* order of the records as they were, and returns the number of records
\* that matched F.
C26_UpdateSetsAndCounts ==
    [][\A p \in Procs :
          (/\ procs[p].op = "update"
           /\ procs'[p].op = "idle"
           /\ procs'[p].res.st = "ok")
          => /\ Records(procs[p].res.arg)' =
                   Updated(UpdateRecords, procs[p].filter, procs[p].changes)
             /\ procs'[p].res.val =
                   <<Num(Cardinality(Matching(UpdateRecords, procs[p].filter)))>>
      ]_vars

(***************************************************************************)
(* SpecDelete: a delete of a collection of three records, and a query      *)
(* with the same filter after it.                                          *)
(***************************************************************************)
DeleteRecords == <<Rec(1, 0), Rec(2, 0), Rec(1, 1)>>

\* filters that match two records, one, all and none
DeleteFilters == {KeyFilter(1), KeyFilter(2), AllFilter, KeyFilter(3)}

InitDelete ==
    /\ InitEngine
    /\ config \in {PlainConfig, EncryptedConfig}
    /\ auth = DefaultAuth
    /\ role = "admin"
    /\ files = [c \in Colls |-> IF c = "A" THEN FileOf(DeleteRecords) ELSE NoFile]
    /\ faults = 0

\* the delete is the first call; the query starts when the delete returned
NextDelete ==
    \/ \E p \in Procs : \E F \in DeleteFilters :
          calls = <<>> /\ delete(p, "A", F)
    \/ \E p \in Procs :
          /\ Len(calls) = 1
          /\ Len(calls) < MaxDeleteCalls
          /\ \E q \in Procs : Returned(q, "delete", "ok")
          /\ \E F \in DeleteFilters : queryObject(p, "A", F, NoOptions)
    \/ \E p \in Procs : MutSteps(p)
    \/ \E p \in Procs : QueryStart(p)
    \/ \E p \in Procs : QueryEvalDone(p)

SpecDelete == InitDelete /\ [][NextDelete]_vars

\* C27: delete(c, F) leaves exactly the records that do not match F, in
\* their order and unchanged, returns the number of records removed, and a
\* query with filter F right after it returns no record.
C27_DeleteRemovesAndCounts ==
    [][\A p \in Procs :
          /\ (/\ procs[p].op = "delete"
              /\ procs'[p].op = "idle"
              /\ procs'[p].res.st = "ok")
             => /\ Records(procs[p].res.arg)' =
                      SelectSeq(DeleteRecords, LAMBDA r : matchFilter(r, procs[p].filter) # "T")
                /\ procs'[p].res.val =
                      <<Num(Len(DeleteRecords) - Len(Records(procs[p].res.arg)'))>>
          /\ (/\ procs[p].op = "queryObject"
              /\ procs'[p].op = "idle"
              /\ \E q \in Procs : /\ Returned(q, "delete", "ok")
                                  /\ procs[q].res.filter = procs[p].filter)
             => /\ procs'[p].res.st = "ok"
                /\ procs'[p].res.val = <<>>
      ]_vars

\* the effect of delete on the collection and on the query after it,
\* without the returned value
DeleteEffect ==
    [][\A p \in Procs :
          /\ (/\ procs[p].op = "delete"
              /\ procs'[p].op = "idle"
              /\ procs'[p].res.st = "ok")
             => Records(procs[p].res.arg)' =
                   SelectSeq(DeleteRecords, LAMBDA r : matchFilter(r, procs[p].filter) # "T")
          /\ (/\ procs[p].op = "queryObject"
              /\ procs'[p].op = "idle"
              /\ \E q \in Procs : /\ Returned(q, "delete", "ok")
                                  /\ procs[q].res.filter = procs[p].filter)
             => /\ procs'[p].res.st = "ok"
                /\ procs'[p].res.val = <<>>
      ]_vars

(***************************************************************************)
(* SpecCorrupt: queries and inserts where one collection file holds text   *)
(* that is not JSON: a plain file cut short, or the same text encrypted    *)
(* under the engine's key.                                                 *)
(***************************************************************************)
CutShort == <<Rec(1, 0), Torn>>

\* the file decodes in the engine's mode and the text is not JSON
Unparsable(cfg, file) ==
    /\ file.ex
    /\ cfg.mode = "encrypted" => Decrypts(cfg, file.content)
    /\ IsTorn(Decoded(cfg, file.content))

InitCorrupt ==
    /\ InitEngine
    /\ config \in {PlainConfig, EncryptedConfig}
    /\ auth = DefaultAuth
    /\ role = "admin"
    /\ \E salt \in RandomBytes : \E iv \in RandomBytes :
          files = [c \in Colls |->
                      IF c = "A" THEN FileOf(Encode(config, CutShort, salt, iv))
                      ELSE NoFile]
    /\ faults = 0

NextCorrupt ==
    \/ \E p \in Procs :
          Len(calls) < MaxCorruptCalls /\ queryObject(p, "A", Undefined, NoOptions)
    \/ \E p \in Procs : \E c \in Colls :
          Len(calls) < MaxCorruptCalls /\ insert(p, c, Rec(2, 0))
    \/ \E p \in Procs : QueryStart(p)
    \/ \E p \in Procs : QueryEvalDone(p)
    \/ \E p \in Procs : MutSteps(p)

SpecCorrupt == InitCorrupt /\ [][NextCorrupt]_vars

\* C28: a query that loads a collection file whose text is not JSON, in
\* plain and in encrypted mode, returns an empty array, and after it the
\* collection file holds an empty array and a file <path>.backup.<timestamp>
\* holds the bytes the collection file had.
C28_CorruptFileBackedUp ==
    [][\A p \in Procs :
          (/\ procs[p].op = "queryObject"
           /\ procs'[p].op = "idle"
           /\ Unparsable(config, files[procs[p].coll]))
          => /\ procs'[p].res.st = "ok"
             /\ procs'[p].res.val = <<>>
             /\ Decoded(config, files'[procs[p].coll].content) = <<>>
             /\ \E i \in 1 .. Len(backupFiles'[procs[p].coll].stamped) :
                   backupFiles'[procs[p].coll].stamped[i] = files[procs[p].coll].content
      ]_vars

(***************************************************************************)
(* The synchronous engine of examples/TextDBX.ts.  Its methods do not      *)
(* await: a call runs from its first statement to its return in one step.  *)
(* The file system calls are taken to succeed.                             *)
(***************************************************************************)
\* iv:ciphertext, under the SHA-256 of the configured key
encryptSync(cfg, data, iv) ==
    << [iv |-> iv, enc |-> [key |-> cfg.encryptionKey, iv |-> iv, data |-> data]] >>

\* the text has the form iv:ciphertext with an iv and a ciphertext of whole
\* blocks
IsCipherText(raw) == Len(raw) = 1 /\ DOMAIN raw[1] = {"iv", "enc"}

\* the text was encrypted under this configuration's key
DecryptsSync(cfg, raw) ==
    /\ IsCipherText(raw)
    /\ raw[1].enc.key = cfg.encryptionKey
    /\ raw[1].enc.iv = raw[1].iv

\* decrypt: [ok, json].  Under another key decipher.final() throws, unless
\* the last block happens to end in valid padding (`padded`): then decrypt
\* returns text that is not JSON
decryptSync(cfg, raw, padded) ==
    IF DecryptsSync(cfg, raw) THEN [ok |-> TRUE, json |-> raw[1].enc.data]
    ELSE IF IsCipherText(raw) /\ padded THEN [ok |-> TRUE, json |-> <<Torn>>]
    ELSE [ok |-> FALSE, json |-> <<>>]

\* JSON.parse(json) throws
ParseFails(json) ==
    IsTorn(json) \/ IsCipherText(json) \/ IsEnvelope(json) \/ json = EmptyText

\* saveFile(collection, data): copy the existing file to <path>.backup, then
\* write the collection file
saveFileSync(s, c, data, iv) ==
    [s EXCEPT
       !.backupFiles[c].last =
           IF s.files[c].ex THEN [ex |-> TRUE, content |-> s.files[c].content] ELSE @,
       !.files[c] = [ex |-> TRUE,
                     content |-> IF s.config.mode = "encrypted"
                                 THEN encryptSync(s.config, data, iv) ELSE data,
                     mtime |-> s.now]]

\* loadFile(collection): [s, data], the state it leaves and the array it
\* returns
loadFileSync(s, c, padded, iv) ==
    LET raw == s.files[c].content
        dec == IF s.config.mode = "encrypted" THEN decryptSync(s.config, raw, padded)
               ELSE [ok |-> TRUE, json |-> raw]
    IN IF ~s.files[c].ex THEN [s |-> s, data |-> <<>>]
       ELSE IF raw = EmptyText
       THEN [s |-> saveFileSync(s, c, <<>>, iv), data |-> <<>>]
       ELSE IF ~dec.ok THEN [s |-> s, data |-> <<>>]
       ELSE IF ParseFails(dec.json)
       THEN [s |-> saveFileSync([s EXCEPT !.backupFiles[c].stamped = Append(@, raw)],
                                c, <<>>, iv),
             data |-> <<>>]
       ELSE IF IsNotArray(dec.json) THEN [s |-> s, data |-> <<dec.json[1].value>>]
       ELSE [s |-> s, data |-> dec.json]

\* matchFilter of the synchronous engine: $contains, or strict equality
matchFilterSync(row, filter) ==
    \/ filter = Undefined
    \/ \A i \in 1 .. Len(filter.f) :
          LET key == filter.f[i][1]
              val == filter.f[i][2]
          IN IF IsOps(val) /\ \E j \in 1 .. Len(val.ops) :
                                 val.ops[j][1] = "$contains" /\ ~Falsy(val.ops[j][2])
             THEN /\ IsArr(GetField(row, key))
                  /\ InSeq((CHOOSE pr \in {val.ops[j] : j \in 1 .. Len(val.ops)} :
                               pr[1] = "$contains")[2],
                           GetField(row, key).arr)
             ELSE StrictEq(GetField(row, key), val)

\* checkPermission throws an Error
Denied(s, p, op, c, action) ==
    Finish(Start(s, p, op, [coll |-> c]), p, "Error", <<>>)

queryObjectSync(p, c, f) ==
    /\ Idle(p)
    /\ \E padded \in BOOLEAN : \E iv \in RandomBytes : \E adv \in Clock :
          Commit(IF ~checkPermission(Cur, "query")
                 THEN Denied(Cur, p, "queryObjectSync", c, "query")
                 ELSE LET ld == loadFileSync(Start(At(adv), p, "queryObjectSync",
                                                   [coll |-> c, filter |-> f]),
                                             c, padded, iv)
                      IN Finish(ld.s, p, "ok",
                                SelectSeq(ld.data, LAMBDA r : matchFilterSync(r, f))))

insertSync(p, c, r) ==
    /\ Idle(p)
    /\ \E padded \in BOOLEAN : \E iv \in RandomBytes : \E iv2 \in RandomBytes :
       \E adv \in Clock :
          Commit(IF ~checkPermission(Cur, "insert")
                 THEN Denied(Cur, p, "insertSync", c, "insert")
                 ELSE IF ~IsObject(r)
                 THEN Finish(Start(Cur, p, "insertSync", [coll |-> c, rec |-> r]),
                             p, "Error", <<>>)
                 ELSE LET ld == loadFileSync(Start(At(adv), p, "insertSync",
                                                   [coll |-> c, rec |-> r]),
                                             c, padded, iv)
                      IN Finish(saveFileSync(ld.s, c, Append(ld.data, r), iv2),
                                p, "ok", <<>>))

updateSync(p, c, f, ch) ==
    /\ Idle(p)
    /\ \E padded \in BOOLEAN : \E iv \in RandomBytes : \E iv2 \in RandomBytes :
       \E adv \in Clock :
          Commit(IF ~checkPermission(Cur, "update")
                 THEN Denied(Cur, p, "updateSync", c, "update")
                 ELSE LET ld == loadFileSync(Start(At(adv), p, "updateSync",
                                                   [coll |-> c, filter |-> f,
                                                    changes |-> ch]),
                                             c, padded, iv)
                          data == [i \in 1 .. Len(ld.data) |->
                                      IF matchFilterSync(ld.data[i], f)
                                      THEN ObjectAssign(ld.data[i], ch)
                                      ELSE ld.data[i]]
                          updateCount == Cardinality({i \in 1 .. Len(ld.data) :
                                             matchFilterSync(ld.data[i], f)})
                      IN Finish(saveFileSync(ld.s, c, data, iv2),
                                p, "ok", <<Num(updateCount)>>))

deleteSync(p, c, f) ==
    /\ Idle(p)
    /\ \E padded \in BOOLEAN : \E iv \in RandomBytes : \E iv2 \in RandomBytes :
       \E adv \in Clock :
          Commit(IF ~checkPermission(Cur, "delete")
                 THEN Denied(Cur, p, "deleteSync", c, "delete")
                 ELSE LET ld == loadFileSync(Start(At(adv), p, "deleteSync",
                                                   [coll |-> c, filter |-> f]),
                                             c, padded, iv)
                          filtered == SelectSeq(ld.data,
                                                LAMBDA r : ~matchFilterSync(r, f))
                      IN Finish(saveFileSync(ld.s, c, filtered, iv2),
                                p, "ok", <<Num(Len(ld.data) - Len(filtered))>>))

(***************************************************************************)
(* SpecRecover: the synchronous engine over a collection file that it      *)
(* finds valid, cut short, encrypted under another key, or written in the  *)
(* other mode.                                                             *)
(***************************************************************************)
OtherKeyConfig == [EncryptedConfig EXCEPT !.encryptionKey = "key2"]

RecoverTexts ==
    {<<Rec(1, 0)>>, CutShort, EmptyText, NotArray(Rec(1, 0)),
     encryptSync(EncryptedConfig, <<Rec(1, 0)>>, 0),
     encryptSync(EncryptedConfig, CutShort, 0),
     encryptSync(OtherKeyConfig, <<Rec(1, 0)>>, 0)}

SyncCaller == 1

InitRecover ==
    /\ InitEngineFor({SyncCaller})
    /\ config \in {PlainConfig, EncryptedConfig}
    /\ auth = DefaultAuth
    /\ role = "admin"
    /\ \E text \in RecoverTexts :
          files = [c \in Colls |-> IF c = "A" THEN FileOf(text) ELSE NoFile]
    /\ faults = 0

NextRecover ==
    \/ Len(calls) < MaxRecoverCalls /\ queryObjectSync(SyncCaller, "A", Undefined)
    \/ Len(calls) < MaxRecoverCalls /\ insertSync(SyncCaller, "A", Rec(2, 0))
    \/ Len(calls) < MaxRecoverCalls /\ updateSync(SyncCaller, "A", KeyFilter(1), Changes)
    \/ Len(calls) < MaxRecoverCalls /\ deleteSync(SyncCaller, "A", KeyFilter(2))

SpecRecover == InitRecover /\ [][NextRecover]_vars

\* the engine cannot decode the text: decryption or JSON.parse fails
Undecodable(cfg, raw) ==
    /\ raw # EmptyText
    /\ IF cfg.mode = "encrypted"
       THEN ~DecryptsSync(cfg, raw) \/ ParseFails(raw[1].enc.data)
       ELSE ParseFails(raw)

\* a backup file beside the collection file holds these bytes
BackedUp(bk, raw) ==
    \/ bk.last.ex /\ bk.last.content = raw
    \/ \E i \in 1 .. Len(bk.stamped) : bk.stamped[i] = raw

\* the texts held by the backup files of a collection
BackupTexts(bk) ==
    {bk.stamped[i] : i \in 1 .. Len(bk.stamped)}
    \cup (IF bk.last.ex THEN {bk.last.content} ELSE {})

\* the synchronous engine's recovery from text that is not JSON: a copy in
\* <path>.backup.<timestamp>, the file re-initialised, an empty result
RecoverySync ==
    [][(/\ calls' # calls
        /\ calls'[Len(calls')].op = "queryObjectSync"
        /\ files["A"].content # EmptyText
        /\ IF config.mode = "encrypted"
           THEN DecryptsSync(config, files["A"].content)
                /\ ParseFails(files["A"].content[1].enc.data)
           ELSE ParseFails(files["A"].content))
       => /\ procs'[SyncCaller].res.st = "ok"
          /\ procs'[SyncCaller].res.val = <<>>
          /\ \E i \in 1 .. Len(backupFiles'["A"].stamped) :
                backupFiles'["A"].stamped[i] = files["A"].content
          /\ IF config.mode = "encrypted"
             THEN /\ DecryptsSync(config, files'["A"].content)
                  /\ files'["A"].content[1].enc.data = <<>>
             ELSE files'["A"].content = <<>>
      ]_vars

\* C29: when a call replaces a collection file whose text the engine could
\* not decode, a backup file holds that text afterwards; a backup of
\* undecodable text, once made, is there after every later insert, update
\* and delete; and a call that finds a file it cannot decrypt fails instead
\* of answering as for an empty collection.
C29_NoSilentDiscard ==
    [][/\ (Undecodable(config, files["A"].content) /\ files'["A"] # files["A"])
          => BackedUp(backupFiles'["A"], files["A"].content)
       /\ \A raw \in BackupTexts(backupFiles["A"]) :
             Undecodable(config, raw) => BackedUp(backupFiles'["A"], raw)
       /\ (/\ calls' # calls
           /\ config.mode = "encrypted"
           /\ files["A"].content # EmptyText
           /\ ~DecryptsSync(config, files["A"].content)
           /\ Len(backupFiles'["A"].stamped) = Len(backupFiles["A"].stamped))
          => procs'[SyncCaller].res.st # "ok"
      ]_vars

(***************************************************************************)
(* SpecRestore: one caller queries, builds an index and restores the       *)
(* backup directory that was there when the engine started:                *)
(* a backup of this mode, of the other mode, or one without a manifest.    *)
(***************************************************************************)
RestoreCaller == 1

\* the directory an earlier run left: a copy of collection A and of .auth,
\* and the manifest, if it was written
OldBackup(manifest) ==
    [files |-> [c \in Colls |->
                   IF c = "A" THEN [ex |-> TRUE, content |-> <<Rec(2, 0)>>] ELSE NoCopy],
     hasAuth |-> TRUE, auth |-> DefaultAuth, manifest |-> manifest]

OldManifests ==
    {NoManifest} \cup
    {[ex |-> TRUE, collections |-> <<"A">>, mode |-> m] : m \in {"plain", "encrypted"}}

InitRestore ==
    /\ \E manifest \in OldManifests :
          InitEngineOver({RestoreCaller}, <<OldBackup(manifest)>>)
    /\ config \in {PlainConfig, EncryptedConfig}
    /\ auth = FullAuth
    /\ role = "admin"
    /\ files = [c \in Colls |->
                   IF c = "A" THEN FileOf(Encode(config, <<Rec(1, 0)>>, 0, 0)) ELSE NoFile]
    /\ faults = 0

CanRestoreCall == Len(calls) < MaxRestoreCalls

NextRestore ==
    \/ CanRestoreCall /\ queryObject(RestoreCaller, "A", KeyFilter(1), NoOptions)
    \/ CanRestoreCall /\ generateIndex(RestoreCaller, "A", "k")
    \/ CanRestoreCall /\ restore(RestoreCaller, 1)
    \/ QueryStart(RestoreCaller)
    \/ LoadReadDone(RestoreCaller)
    \/ QueryEvalDone(RestoreCaller)
    \/ GenLoad(RestoreCaller)
    \/ GenBuildDone(RestoreCaller)
    \/ GenWriteDone(RestoreCaller)
    \/ RestoreCopied(RestoreCaller)
    \/ RestoreMetaCopied(RestoreCaller)

SpecRestore == InitRestore /\ [][NextRestore]_vars

\* the backup directory has no manifest.json, or one of another mode
Rejected(dir, cfg) == ~dir.manifest.ex \/ dir.manifest.mode # cfg.mode

\* the restore call of this step is one the engine must reject
RestoreRejected ==
    /\ calls' # calls
    /\ calls'[Len(calls')].op = "restore"
    /\ Rejected(backupDirs[1], config)

\* a rejected restore changes nothing
RejectedRestoreKeepsState ==
    [][RestoreRejected
       => /\ procs'[RestoreCaller].res.st # "ok"
          /\ files' = files /\ auth' = auth /\ cache' = cache /\ indexes' = indexes
          /\ indexFiles' = indexFiles
      ]_vars

\* C30: a restore from a directory without manifest.json fails, a restore
\* from a backup of the other mode fails with a validation error, and both
\* leave the collection files, the auth table, the cache and the indexes as
\* they were.
C30_RejectedRestore ==
    [][RestoreRejected
       => /\ procs'[RestoreCaller].res.st # "ok"
          /\ backupDirs[1].manifest.ex => procs'[RestoreCaller].res.st = "VALIDATION_ERROR"
          /\ files' = files /\ auth' = auth /\ cache' = cache /\ indexes' = indexes
          /\ indexFiles' = indexFiles
      ]_vars

(***************************************************************************)
(* SpecBackup: a backup, then inserts, updates and deletes, then a restore *)
(* of the backup and a query, each call started when the one before it has *)
(* returned.                                                               *)
(***************************************************************************)
BackupRecords == <<Rec(1, 0)>>

InitBackup ==
    /\ InitEngineFor({RestoreCaller})
    /\ config \in {PlainConfig, EncryptedConfig}
    /\ auth = FullAuth
    /\ role = "admin"
    /\ files = [c \in Colls |->
                   IF c = "A" THEN FileOf(Encode(config, BackupRecords, 0, 0)) ELSE NoFile]
    /\ faults = 0

\* the caller awaits every call
CanCallBackup == Len(calls) < MaxBackupCalls /\ Idle(RestoreCaller)

NextBackup ==
    \/ calls = <<>> /\ backup(RestoreCaller)
    \/ \E c \in Colls :
          calls # <<>> /\ CanCallBackup /\ insert(RestoreCaller, c, Rec(2, 0))
    \/ calls # <<>> /\ CanCallBackup /\ update(RestoreCaller, "A", KeyFilter(1), Changes)
    \/ calls # <<>> /\ CanCallBackup /\ delete(RestoreCaller, "A", KeyFilter(1))
    \/ calls # <<>> /\ CanCallBackup /\ restore(RestoreCaller, 1)
    \/ \E c \in Colls :
          calls # <<>> /\ CanCallBackup /\ queryObject(RestoreCaller, c, Undefined, NoOptions)
    \/ MutSteps(RestoreCaller)
    \/ QueryStart(RestoreCaller)
    \/ QueryEvalDone(RestoreCaller)
    \/ BackupCopied(RestoreCaller)
    \/ BackupMetaCopied(RestoreCaller)
    \/ BackupManifestWritten(RestoreCaller)
    \/ RestoreCopied(RestoreCaller)
    \/ RestoreMetaCopied(RestoreCaller)

SpecBackup == InitBackup /\ [][NextBackup]_vars

\* the call before the latest one was a restore
QueryFollowsRestore ==
    /\ Len(calls) >= 2
    /\ calls[Len(calls) - 1].op = "restore"

PatternCount(pats, f) ==
    IF \E j \in 1 .. Len(pats) : pats[j][1] = f
    THEN pats[CHOOSE j \in 1 .. Len(pats) : pats[j][1] = f][2]
    ELSE 0

\* C32: a query with filter field f raises the counter of f by one when it
\* starts; when it ends, every field whose counter it saw above 5 has an
\* index; no index exists for a field whose counter is 5 or less; and an
\* index that exists is not built again.
C32_AutoIndexAtSixthQuery ==
    [][\A p \in Procs :
          /\ (procs[p].pc = "q_start" /\ procs'[p].pc # "q_start"
              /\ procs[p].blocked = "" /\ IsFilterObj(procs[p].filter))
             => \A i \in 1 .. Len(procs[p].filter.f) :
                   PatternCount(queryPatterns'[procs[p].coll], procs[p].filter.f[i][1])
                     = PatternCount(queryPatterns[procs[p].coll], procs[p].filter.f[i][1]) + 1
          /\ (procs[p].op = "queryObject" /\ procs'[p].op = "idle")
             => LET seen == IF procs[p].pc = "q_start"
                            THEN queryPatterns'[procs[p].coll] ELSE procs[p].ents
                IN \A j \in 1 .. Len(seen) :
                      seen[j][2] > AutoIndexThreshold
                      => \E k \in 1 .. Len(indexes') :
                             /\ indexes'[k].coll = procs[p].coll
                             /\ indexes'[k].field = seen[j][1]
          /\ \A j \in 1 .. Len(indexes') :
                PatternCount(queryPatterns'[indexes'[j].coll], indexes'[j].field)
                   > AutoIndexThreshold
      ]_vars

(***************************************************************************)
(* insert: what a call leaves in the collection files.  A caller awaits    *)
(* each insert before the next one starts.                                 *)
(***************************************************************************)
MaxInsertCalls == 2

InsertArgs == {Rec(2, 0), Primitive(Num(5))}

InitInsert ==
    /\ InitEngine
    /\ config \in {PlainConfig, EncryptedConfig}
    /\ auth = DefaultAuth
    /\ role = "admin"
    /\ files = [c \in Colls |->
                  IF c = "A" THEN FileOf(Encode(config, <<Rec(1, 0)>>, 0, 0)) ELSE NoFile]
    /\ faults = 0

NextInsert ==
    \/ \E p \in Procs : \E c \in Colls : \E r \in InsertArgs :
          /\ Len(calls) < MaxInsertCalls
          /\ \A q \in Procs : Idle(q)
          /\ insert(p, c, r)
    \/ \E p \in Procs : MutSteps(p)

SpecInsert == InitInsert /\ [][NextInsert]_vars

\* the records a collection file holds
StoredIn(fs, c) == IF fs[c].ex THEN Decoded(config, fs[c].content) ELSE <<>>

\* an insert of an object ends without error, and a step that changes the
\* collection files belongs to an insert into c with record r, creates or
\* rewrites the file of c only, and leaves in it the records it held before,
\* followed by r
InsertAppends ==
    [][/\ \A p \in Procs :
             (procs[p].op = "insert" /\ procs'[p].op = "idle" /\ IsObject(procs[p].rec))
             => procs'[p].res.st = "ok"
       /\ (\E c \in Colls : StoredIn(files', c) # StoredIn(files, c) \/ files'[c].ex # files[c].ex)
          => \E p \in Procs :
                /\ procs[p].op = "insert"
                /\ files'[procs[p].coll].ex
                /\ StoredIn(files', procs[p].coll)
                      = StoredIn(files, procs[p].coll) \o <<procs[p].rec>>
                /\ \A c \in Colls \ {procs[p].coll} :
                      /\ files'[c].ex = files[c].ex
                      /\ files'[c].content = files[c].content
      ]_vars

\* C33: insert(c, record) with an object record appends the record to the
\* records of c, which stay as they were, creates c when it did not exist and
\* changes no other collection; a record that is not an object is rejected
\* and nothing changes.
C33_InsertAppendsObjectsOnly ==
    [][/\ \A p \in Procs :
             (procs[p].op = "insert" /\ procs'[p].op = "idle")
             => (procs'[p].res.st = "ok") = IsObject(procs[p].rec)
       /\ (\E c \in Colls : StoredIn(files', c) # StoredIn(files, c) \/ files'[c].ex # files[c].ex)
          => \E p \in Procs :
                /\ procs[p].op = "insert"
                /\ IsObject(procs[p].rec)
                /\ files'[procs[p].coll].ex
                /\ StoredIn(files', procs[p].coll)
                      = StoredIn(files, procs[p].coll) \o <<procs[p].rec>>
                /\ \A c \in Colls \ {procs[p].coll} :
                      /\ files'[c].ex = files[c].ex
                      /\ files'[c].content = files[c].content
      ]_vars

(***************************************************************************)
(* generateIndex of the asynchronous and of the synchronous engine, for a  *)
(* caller that awaits each call.                                           *)
(***************************************************************************)
MaxIndexCalls == 3

\* the synchronous engine's forEach: a record whose field is undefined or
\* null is left out
RECURSIVE BuildIndexSync(_, _, _, _)
BuildIndexSync(recs, f, i, idx) ==
    IF i > Len(recs) THEN idx
    ELSE BuildIndexSync(recs, f, i + 1,
             IF GetField(recs[i], f) \in {Null, Undefined} THEN idx
             ELSE IF \E j \in 1 .. Len(idx) : idx[j][1] = IndexKey(GetField(recs[i], f))
             THEN [j \in 1 .. Len(idx) |->
                      IF idx[j][1] = IndexKey(GetField(recs[i], f))
                      THEN <<idx[j][1], Append(idx[j][2], i - 1)>> ELSE idx[j]]
             ELSE Append(idx, <<IndexKey(GetField(recs[i], f)), <<i - 1>>>>))

\* generateIndex(collection, field) of the synchronous engine
generateIndexSync(p, c, f) ==
    /\ Idle(p)
    /\ \E padded \in BOOLEAN : \E iv \in RandomBytes : \E adv \in Clock :
          Commit(IF ~checkPermission(Cur, "index")
                 THEN Denied(Cur, p, "generateIndexSync", c, "index")
                 ELSE LET ld == loadFileSync(Start(At(adv), p, "generateIndexSync",
                                                   [coll |-> c, fld |-> f]),
                                             c, padded, iv)
                      IN Finish([ld.s EXCEPT
                                   !.indexFiles =
                                       {x \in @ : ~(x.coll = c /\ x.field = f)}
                                       \cup {[coll |-> c, field |-> f,
                                              idx |-> BuildIndexSync(ld.data, f, 1, <<>>)]}],
                                p, "ok", <<>>))

NoKey == [v |-> Num(0)]
NullKey == [k |-> Null, v |-> Num(0)]
IndexContents ==
    {<<>>, <<Rec(1, 0), Rec(2, 0), Rec(1, 1)>>, <<Rec(1, 0), NoKey>>, <<NullKey, Rec(1, 0)>>}
IndexInserts == {Rec(1, 0), Rec(2, 0), NullKey}

InitIndex ==
    /\ InitEngine
    /\ config \in {PlainConfig, EncryptedConfig}
    /\ auth = DefaultAuth
    /\ role = "admin"
    /\ \E recs \in IndexContents :
          files = [c \in Colls |->
                     IF c = "A" THEN FileOf(Encode(config, recs, 0, 0)) ELSE NoFile]
    /\ faults = 0

CanCallIndex == Len(calls) < MaxIndexCalls /\ \A q \in Procs : Idle(q)

NextIndex ==
    \/ \E p \in Procs : CanCallIndex /\ generateIndex(p, "A", "k")
    \/ \E p \in Procs : \E r \in IndexInserts : CanCallIndex /\ insert(p, "A", r)
    \/ \E p \in Procs : CanCallIndex /\ delete(p, "A", KeyFilter(1))
    \/ \E p \in Procs : MutSteps(p)
    \/ \E p \in Procs : GenLoad(p)
    \/ \E p \in Procs : GenBuildDone(p)
    \/ \E p \in Procs : GenWriteDone(p)

SpecIndex == InitIndex /\ [][NextIndex]_vars

InitIndexSync ==
    /\ InitEngineFor({SyncCaller})
    /\ config \in {PlainConfig, EncryptedConfig}
    /\ auth = DefaultAuth
    /\ role = "admin"
    /\ \E recs \in IndexContents :
          files = [c \in Colls |->
                     IF c = "A"
                     THEN FileOf(IF config.mode = "encrypted"
                                 THEN encryptSync(config, recs, 0) ELSE recs)
                     ELSE NoFile]
    /\ faults = 0

NextIndexSync ==
    \/ Len(calls) < MaxIndexCalls /\ generateIndexSync(SyncCaller, "A", "k")
    \/ \E r \in IndexInserts : Len(calls) < MaxIndexCalls /\ insertSync(SyncCaller, "A", r)
    \/ Len(calls) < MaxIndexCalls /\ deleteSync(SyncCaller, "A", KeyFilter(1))

SpecIndexSync == InitIndexSync /\ [][NextIndexSync]_vars

\* the records of collection c as the synchronous engine stored them
StoredSync(c) ==
    IF ~files[c].ex THEN <<>>
    ELSE IF config.mode = "encrypted" THEN files[c].content[1].enc.data
    ELSE files[c].content

\* idx, a sequence of <<value, positions>> pairs, partitions the positions
\* 0 .. Len(recs) - 1 by the stringified value of field f
IsPartitionBy(idx, recs, f) ==
    /\ \A pos \in 0 .. Len(recs) - 1 :
          \E j \in 1 .. Len(idx) :
             /\ \E n \in 1 .. Len(idx[j][2]) : idx[j][2][n] = pos
             /\ \A j2 \in 1 .. Len(idx) :
                   (\E n \in 1 .. Len(idx[j2][2]) : idx[j2][2][n] = pos) => j2 = j
    /\ \A j \in 1 .. Len(idx) :
          /\ \A n \in 1 .. Len(idx[j][2]) :
                /\ idx[j][2][n] \in 0 .. Len(recs) - 1
                /\ IndexKey(GetField(recs[idx[j][2][n] + 1], f)) = idx[j][1]
                /\ n > 1 => idx[j][2][n - 1] < idx[j][2][n]
          /\ \A pos \in 0 .. Len(recs) - 1 :
                IndexKey(GetField(recs[pos + 1], f)) = idx[j][1]
                => \E n \in 1 .. Len(idx[j][2]) : idx[j][2][n] = pos

\* the call made last was op, and it has returned
LastCall(op) ==
    /\ calls # <<>>
    /\ calls[Len(calls)].op = op
    /\ \A q \in DOMAIN procs : Idle(q)

\* C34: right after generateIndex(c, field) every position 0..n-1 of c is in
\* exactly one value's list, the list of a value holds exactly the positions
\* whose field stringifies to it, null and missing fields under "null", and
\* each list is ascending.
C34_IndexIsPartition ==
    \A p \in DOMAIN procs :
       /\ (Returned(p, "generateIndex", "ok") /\ LastCall("generateIndex"))
          => \E j \in 1 .. Len(indexes) :
                /\ indexes[j].coll = procs[p].res.arg
                /\ indexes[j].field = "k"
                /\ IsPartitionBy(indexes[j].idx, StoredIn(files, procs[p].res.arg), "k")
       /\ (Returned(p, "generateIndexSync", "ok") /\ LastCall("generateIndexSync"))
          => \E x \in indexFiles :
                /\ x.coll = procs[p].res.arg
                /\ x.field = "k"
                /\ IsPartitionBy(x.idx, StoredSync(procs[p].res.arg), "k")

(***************************************************************************)
(* SpecLoad: the first load of a collection file that is absent, empty,    *)
(* holds one value that is not an array, or holds an array.  A caller      *)
(* awaits each call.                                                       *)
(***************************************************************************)
MaxLoadCalls == 2

LoadTexts == {<<Rec(1, 0)>>, NotArray(Rec(1, 0)), NotArray(Num(5))}

InitLoad ==
    /\ InitEngine
    /\ config \in {PlainConfig, EncryptedConfig}
    /\ auth = DefaultAuth
    /\ role = "admin"
    /\ \E file \in {NoFile, FileOf(EmptyText)}
                   \cup {FileOf(Encode(config, text, 0, 0)) : text \in LoadTexts} :
          files = [c \in Colls |-> IF c = "A" THEN file ELSE NoFile]
    /\ faults = 0

CanCallLoad == Len(calls) < MaxLoadCalls /\ \A q \in Procs : Idle(q)

NextLoad ==
    \/ \E p \in Procs : CanCallLoad /\ queryObject(p, "A", Undefined, NoOptions)
    \/ \E p \in Procs : \E c \in Colls : CanCallLoad /\ insert(p, c, Rec(2, 0))
    \/ \E p \in Procs : QueryStart(p)
    \/ \E p \in Procs : QueryEvalDone(p)
    \/ \E p \in Procs : MutSteps(p)

SpecLoad == InitLoad /\ [][NextLoad]_vars

\* the engine can decode the file's text in its mode
Decodes(cfg, file) == cfg.mode = "encrypted" => Decrypts(cfg, file.content)

\* C35: a query that loads an empty file returns an empty array and leaves
\* the file holding an empty array; one that loads a file whose text is a
\* single value that is not an array returns an array of that one value; one
\* that finds no file returns an empty array and creates no file.
C35_LoadRepairs ==
    [][\A p \in Procs :
          (procs[p].op = "queryObject" /\ procs'[p].op = "idle")
          => LET file == files[procs[p].coll]
                 after == files'[procs[p].coll]
                 r == procs'[p].res
             IN /\ ~file.ex => r.st = "ok" /\ r.val = <<>> /\ ~after.ex
                /\ (file.ex /\ file.content = EmptyText)
                   => /\ r.st = "ok" /\ r.val = <<>>
                      /\ after.ex /\ Decodes(config, after)
                      /\ Decoded(config, after.content) = <<>>
                /\ (file.ex /\ file.content # EmptyText /\ Decodes(config, file)
                    /\ IsNotArray(Decoded(config, file.content)))
                   => /\ r.st = "ok"
                      /\ r.val = <<Decoded(config, file.content)[1].value>>
      ]_vars

\* the part of C35 about an absent file
AbsentFileLoadsEmpty ==
    [][\A p \in Procs :
          (procs[p].op = "queryObject" /\ procs'[p].op = "idle"
           /\ ~files[procs[p].coll].ex)
          => /\ procs'[p].res.st = "ok" /\ procs'[p].res.val = <<>>
             /\ ~files'[procs[p].coll].ex
      ]_vars

\* the synchronous engine on an empty file and on a file holding one value
\* that is not an array, which it can decode: the query returns an empty
\* array and the file then holds an empty array, or the query returns an
\* array of that value
LoadRepairsSync ==
    [][(/\ Len(calls') = Len(calls) + 1
        /\ calls'[Len(calls')].op = "queryObjectSync")
       => LET file == files["A"]
              r == procs'[SyncCaller].res
          IN /\ (file.ex /\ file.content = EmptyText)
                => /\ r.st = "ok" /\ r.val = <<>>
                   /\ StoredSync("A")' = <<>>
             /\ (file.ex /\ config.mode = "plain" /\ IsNotArray(file.content))
                => r.st = "ok" /\ r.val = <<file.content[1].value>>
      ]_vars

(***************************************************************************)
(* SpecName: the public operations that take a collection name, called     *)
(* with names that are and that are not collection names.  A caller awaits *)
(* each call.                                                              *)
(***************************************************************************)
MaxNameCalls == 2

CallNames == Colls \cup BadNames

InitName ==
    /\ InitEngine
    /\ config = PlainConfig
    /\ auth = FullAuth
    /\ role = "admin"
    /\ files = [c \in Colls |-> IF c = "A" THEN FileOf(<<Rec(1, 0)>>) ELSE NoFile]
    /\ faults = 0

CanCallName == Len(calls) < MaxNameCalls /\ \A q \in Procs : Idle(q)

NextName ==
    \/ \E p \in Procs : \E c \in CallNames :
          CanCallName /\ queryObject(p, c, KeyFilter(1), NoOptions)
    \/ \E p \in Procs : \E c \in CallNames : CanCallName /\ insert(p, c, Rec(2, 0))
    \/ \E p \in Procs : \E c \in CallNames :
          CanCallName /\ update(p, c, KeyFilter(1), Changes)
    \/ \E p \in Procs : \E c \in CallNames : CanCallName /\ delete(p, c, KeyFilter(1))
    \/ \E p \in Procs : \E c \in CallNames : CanCallName /\ generateIndex(p, c, "k")
    \/ \E p \in Procs : \E c \in CallNames : CanCallName /\ dropIndex(p, c, "k")
    \/ \E p \in Procs : \E c \in CallNames : CanCallName /\ createCollection(p, c)
    \/ \E p \in Procs : \E c \in CallNames : CanCallName /\ dropCollection(p, c)
    \/ \E p \in Procs : \E c \in CallNames :
          CanCallName /\ aggregate(p, c, <<AggregationStage("$limit", Num(1))>>)
    \/ \E p \in Procs : MutSteps(p)
    \/ \E p \in Procs : QueryStart(p)
    \/ \E p \in Procs : QueryEvalDone(p)
    \/ \E p \in Procs : GenLoad(p)
    \/ \E p \in Procs : GenBuildDone(p)
    \/ \E p \in Procs : GenWriteDone(p)
    \/ \E p \in Procs : DropIndexUnlinked(p)
    \/ \E p \in Procs : CreateStarted(p)
    \/ \E p \in Procs : DropStarted(p)
    \/ \E p \in Procs : DropUnlinked(p)
    \/ \E p \in Procs : DropIndexUnlinkedInLoop(p)
    \/ \E p \in Procs : AggLoad(p)
    \/ \E p \in Procs : AggEvalDone(p)

SpecName == InitName /\ [][NextName]_vars

NameOps ==
    {"queryObject", "insert", "update", "delete", "generateIndex", "dropIndex",
     "createCollection", "dropCollection", "aggregate"}

\* a call with a name that is not a collection name is in flight
BadCall(p) == procs[p].op \in NameOps /\ ~validateCollectionName(procs[p].coll)

\* the counters the engine holds, an absent entry counting as empty
CountersOf(pats) == {x \in {<<n, pats[n]>> : n \in DOMAIN pats} : x[2] # <<>>}

\* what C36 says of every operation but dropIndex, and without the counters:
\* the call fails with a validation error and files, cache and indexes stay
BadNameRejected ==
    [][\A p \in Procs :
          /\ (BadCall(p) /\ procs'[p].op = "idle" /\ procs[p].op # "dropIndex")
             => procs'[p].res.st = "VALIDATION_ERROR"
          /\ BadCall(p)
             => /\ files' = files /\ tmpFiles' = tmpFiles
                /\ cache' = cache
                /\ indexes' = indexes /\ indexFiles' = indexFiles
      ]_vars

\* C36: an operation given a name that is not a collection name fails with a
\* validation error, whichever of query, insert, update, delete,
\* generateIndex, dropIndex, createCollection, dropCollection and aggregate
\* it is, and changes neither files, cache, indexes nor query counters.
C36_BadNameRejected ==
    [][\A p \in Procs :
          /\ (BadCall(p) /\ procs'[p].op = "idle")
             => procs'[p].res.st = "VALIDATION_ERROR"
          /\ BadCall(p)
             => /\ files' = files /\ tmpFiles' = tmpFiles
                /\ cache' = cache
                /\ indexes' = indexes /\ indexFiles' = indexFiles
                /\ CountersOf(queryPatterns') = CountersOf(queryPatterns)
      ]_vars

(***************************************************************************)
(* SpecLive: queries under pools of every size from one connection up.     *)
(* The event loop runs a continuation whenever one is ready; nothing       *)
(* obliges a caller to make a call.                                        *)
(***************************************************************************)
MaxLiveCalls == 7

InitLive ==
    /\ InitEngine
    /\ config \in {[PlainConfig EXCEPT !.maxConnections = n] : n \in 1 .. MaxConnections}
    /\ auth = DefaultAuth
    /\ role = "admin"
    /\ files = QueryFiles
    /\ faults = 0

\* a continuation of a call in flight runs
StepLive ==
    \/ \E p \in Procs : QueryStart(p)
    \/ \E p \in Procs : QueryResume(p)
    \/ \E p \in Procs : QueryEvalDone(p)
    \/ \E p \in Procs : GenLoad(p)
    \/ \E p \in Procs : GenBuildDone(p)
    \/ \E p \in Procs : GenWriteDone(p)
    \/ \E p \in Procs : LoadReadDone(p)

NextLive ==
    \/ \E p \in Procs :
          Len(calls) < MaxLiveCalls /\ queryObject(p, "A", KeyFilter(1), NoOptions)
    \/ StepLive

\* while a continuation is ready the event loop runs one
FairLive == WF_vars(StepLive)

SpecLive == InitLive /\ [][NextLive]_vars /\ FairLive

\* C37: every public operation that has started eventually returns or
\* raises, whatever the size of the pool and however the callers overlap,
\* also a query that builds an index while it holds a connection.
C37_EveryCallCompletes ==
    \A p \in Procs : (procs[p].op # "idle") ~> (procs[p].op = "idle")

(***************************************************************************)
(* SpecLeak: overlapping calls that end in every kind of error: a write    *)
(* that fails, a file the engine cannot decrypt, a filter whose operator   *)
(* throws, a role without the permission.                                  *)
(***************************************************************************)
MaxLeakCalls == 2

LeakFilters == {KeyFilter(1), BadFilter}

InitLeak ==
    /\ InitEngine
    /\ config \in {PlainConfig, EncryptedConfig}
    /\ auth = DefaultAuth
    /\ role \in {"admin", "reader"}
    /\ files = [c \in Colls |-> IF c = "A" THEN FileOf(<<Rec(1, 0)>>) ELSE NoFile]
    /\ faults = MaxFaults

NextLeak ==
    \/ \E p \in Procs : \E c \in Colls :
          Len(calls) < MaxLeakCalls /\ insert(p, c, Rec(2, 0))
    \/ \E p \in Procs : \E F \in LeakFilters :
          Len(calls) < MaxLeakCalls /\ update(p, "A", F, Changes)
    \/ \E p \in Procs : \E F \in LeakFilters :
          Len(calls) < MaxLeakCalls /\ delete(p, "A", F)
    \/ \E p \in Procs : \E F \in LeakFilters :
          Len(calls) < MaxLeakCalls /\ queryObject(p, "A", F, NoOptions)
    \/ \E p \in Procs : MutSteps(p)
    \/ \E p \in Procs : QueryStart(p)
    \/ \E p \in Procs : QueryEvalDone(p)

SpecLeak == InitLeak /\ [][NextLeak]_vars

\* C38: whenever no public operation is in flight the file-lock table is
\* empty, the pool has no active connection and nobody waits for one,
\* whether the operations returned or raised.
C38_NothingLeaked ==
    (\A p \in Procs : Idle(p))
    => /\ fileLocks = {}
       /\ connectionPool.active = 0
       /\ connectionPool.queue = <<>>
       /\ \A p \in Procs : procs[p].conns = 0

\* two overlapping calls have ended, one with a failed write and the other
\* with a filter error
C38_Witness ==
    /\ Len(calls) = 2
    /\ \A p \in Procs : Idle(p)
    /\ \E p \in Procs : procs[p].res.st = "FILE_WRITE_ERROR"
    /\ \E p \in Procs : procs[p].res.st = "FILTER_ERROR"

\* the other kinds of error are reached as well
LeakErrorsReached ==
    /\ \A p \in Procs : Idle(p)
    /\ \E p \in Procs : procs[p].res.st = "DECRYPTION_ERROR"
    /\ \E p \in Procs : procs[p].res.st = "ok"

(***************************************************************************)
(* SpecDirty: inserts and queries on one collection, overlapping, where a  *)
(* write or a rename may fail.                                             *)
(***************************************************************************)
MaxDirtyCalls == 3

InitDirty ==
    /\ InitEngine
    /\ config = PlainConfig
    /\ auth = DefaultAuth
    /\ role = "admin"
    /\ files = [c \in Colls |-> IF c = "A" THEN FileOf(<<Rec(1, 0)>>) ELSE NoFile]
    /\ faults = MaxFaults

NextDirty ==
    \/ \E p \in Procs : Len(calls) < MaxDirtyCalls /\ insert(p, "A", Rec(2, 0))
    \/ \E p \in Procs :
          Len(calls) < MaxDirtyCalls /\ queryObject(p, "A", Undefined, NoOptions)
    \/ \E p \in Procs : MutSteps(p)
    \/ \E p \in Procs : QueryStart(p)
    \/ \E p \in Procs : QueryEvalDone(p)

SpecDirty == InitDirty /\ [][NextDirty]_vars

\* no insert, update or delete on collection c is in flight
Quiet(c) ==
    \A p \in Procs : ~(procs[p].op \in {"insert", "update", "delete"} /\ procs[p].coll = c)

\* the cache entry of c, if there is one, holds the records of the file of c
CacheIsFile(c) ==
    cache.ent[c].has => Stringify(Cur, cache.ent[c].data) = StoredIn(files, c)

\* C39: while no mutating operation on a collection is in flight its cache
\* entry holds exactly the records of its file, also after an insert whose
\* save failed, and a query that ends while an insert is in flight returns
\* only records that the file holds.
C39_CacheIsFile ==
    /\ \A c \in Colls : Quiet(c) => CacheIsFile(c)
    /\ \A p \in Procs :
          Returned(p, "queryObject", "ok")
          => \A i \in 1 .. Len(procs[p].res.val) :
                \E j \in 1 .. Len(StoredIn(files, "A")) :
                   StoredIn(files, "A")[j] = procs[p].res.val[i]

\* the first part of C39 alone
QuietCacheIsFile == \A c \in Colls : Quiet(c) => CacheIsFile(c)

\* the last part of C39 alone: inserts only add records, so what a query
\* returned stays in the file once it is there
QueryReturnsStored ==
    \A p \in Procs :
       Returned(p, "queryObject", "ok")
       => \A i \in 1 .. Len(procs[p].res.val) :
             \E j \in 1 .. Len(StoredIn(files, "A")) :
                StoredIn(files, "A")[j] = procs[p].res.val[i]

(***************************************************************************)
(* SpecTwice: one transaction with recorded operations, committed by two   *)
(* calls that may overlap.                                                 *)
(***************************************************************************)
MaxTwiceCalls == 3

TwiceOps ==
    { InsertOp("A", Rec(2, 0)), UpdateOp("A", KeyFilter(1), Changes),
      DeleteOp("A", KeyFilter(1)) }

InitTwice ==
    /\ InitEngine
    /\ config = PlainConfig
    /\ auth = DefaultAuth
    /\ role = "admin"
    /\ files = TxnFiles
    /\ faults = 0

NextTwice ==
    \/ \E p \in Procs : Len(calls) < MaxTwiceCalls /\ beginTransaction(p)
    \/ \E t \in TxIds : \E op \in TwiceOps : Stage(t, op)
    \/ \E p \in Procs : \E t \in TxIds :
          Len(calls) < MaxTwiceCalls /\ commitTransaction(p, t)
    \/ \E p \in Procs : ExecBackupDone(p)
    \/ \E p \in Procs : CommitStep(p)
    \/ \E p \in Procs : LoadReadDone(p)
    \/ \E p \in Procs : MutApply(p)
    \/ \E p \in Procs : WriteDone(p)
    \/ \E p \in Procs : RenameDone(p)
    \/ \E p \in Procs : CacheAfterSave(p)
    \/ \E p \in Procs : Unlock(p)

SpecTwice == InitTwice /\ [][NextTwice]_vars

\* the transaction begun was committed by two calls, and both have ended
CommittedTwice ==
    /\ calls = <<Call("beginTransaction", "", 1), Call("commitTransaction", "", 1),
                 Call("commitTransaction", "", 1)>>
    /\ \A p \in Procs : Idle(p)

\* C40: when commitTransaction is called twice for one transaction, whether
\* the calls overlap or not, one of them fails with a transaction error, at
\* most one returns normally, and every collection holds its records with
\* the operations of the transaction applied once.
C40_CommitAppliesOnce ==
    CommittedTwice =>
       /\ \E p \in Procs : Returned(p, "commitTransaction", TxError)
       /\ \A p, q \in Procs :
             /\ Returned(p, "commitTransaction", "ok")
             /\ Returned(q, "commitTransaction", "ok")
             => p = q
       /\ \A c \in Colls :
             Records(c) = ApplyOps(TxnRecords(c), transactions[1].operations, 1, c)

\* the part of C40 about calls that do not overlap: a commitTransaction made
\* after an earlier one for the same id has ended fails
SecondCommitFails ==
    CommittedTwice => \E p \in Procs : Returned(p, "commitTransaction", TxError)

\* a transaction without operations: its commit has no await, so of two
\* commitTransaction calls the second finds the id removed
EmptyCommitOnce ==
    CommittedTwice /\ transactions[1].operations = <<>>
    => \E p \in Procs : Returned(p, "commitTransaction", TxError)

====
